---- MODULE Spec2Model ----
(***************************************************************************)
(* ez-ssg: the frontmatter codec, the post parser, the markdown render     *)
(* hook and the static site build of the generator.                        *)
(*                                                                         *)
(* A byte is a one-character string; a file, a buffer and a path are       *)
(* sequences of bytes.  The byte alphabet of the model is the set Byte.    *)
(***************************************************************************)
EXTENDS Integers, Sequences, FiniteSets, TLC

VARIABLES
    file,            \* content of the document on disk, or NoFile
    origin,          \* how the document was produced: "none", "add", "user"
    fmData,          \* the data handed to addFrontmatter
    docLines,        \* the lines a user-written document was made of
    ppath,           \* the path handed to parsePost
    rpc,             \* position of parsePost/readPost
    scanRest,        \* bytes the scanner has not consumed yet
    boundaryCount,   \* readPost: boundaryCount
    bufFrontMatter,  \* readPost: bufFrontMatter
    bufContent,      \* readPost: bufContent
    discarded,       \* number of lines readPost dropped as boundaries
    post,            \* parsePost: the returned post
    perr,            \* parsePost: the returned error kind ("" is nil)
    fnIn,            \* the arguments of the function under test
    fnOut,           \* its result
    fnPc,            \* "call" before the call, "ret" after it, "off" when unused
    fs,              \* the working directory: path -> entry
    resets,          \* calls of resetStaticSite made on its own
    rerr,            \* the error of the last such call ("" is nil)
    prior,           \* the working directory before each of these calls
    bpc,             \* position of generateStaticSite
    cfg,             \* generateStaticSite: cfg
    posts,           \* generateStaticSite: posts
    tags,            \* generateStaticSite: tags
    queue,           \* the items the running loop has not visited yet
    berr,            \* the error generateStaticSite returned (<<>> is nil)
    includesRender,  \* the package variable includesRender
    builds,          \* calls of generateStaticSite so far
    trace,           \* the stage of every step of the running call, in order
    written,         \* the pages the running call has created, in order
    embedded,        \* the templates built into the program (includesEFS, layoutsEFS)
    gui,             \* interactive: the views of the *gocui.Gui
    active,          \* the package variable active
    uipc,            \* position of interactive, "off" when the process is not in it
    rows,            \* the height of the terminal
    execs            \* commands executed from the side view so far

codecVars == <<file, origin, fmData, docLines, ppath, rpc, scanRest,
               boundaryCount, bufFrontMatter, bufContent, discarded, post, perr>>

fnVars == <<fnIn, fnOut, fnPc>>

resetVars == <<resets, rerr, prior>>

buildVars == <<bpc, cfg, posts, tags, queue, berr, includesRender, builds, trace, written>>

uiVars == <<gui, active, uipc, rows, execs>>

siteVars == <<fs, resetVars, buildVars, embedded, uiVars>>

vars == <<codecVars, fnVars, siteVars>>

-----------------------------------------------------------------------------
(* Bounds of the model *)

MaxLines == 4       \* lines of a user-written document
MaxFrags == 3       \* line fragments of the data handed to addFrontmatter
MaxPathLen == 3     \* bytes of a path handed to postRootName
MaxTags == 2        \* elements of the Tags of a post
MaxResets == 2      \* calls of resetStaticSite in a row
MaxBuilds == 1      \* calls of generateStaticSite
MaxExecs == 2       \* commands executed in one run of the interactive mode
MaxInput == 1       \* characters typed into an input view

-----------------------------------------------------------------------------
(* Bytes *)

LF == "\n"
CR == "\r"
QUOTE == "\""

Digit == {"0", "1", "2", "3", "4", "5", "6", "7", "8", "9"}

Letter == {"a", "b", "c", "d", "e", "f", "g", "i", "l", "m", "n", "o", "p",
           "r", "s", "t", "u", "x", "y", "_", "A", "B"}

CtrlByte == {LF, CR, "\t"}

Byte == Digit \cup Letter \cup CtrlByte \cup
        {"{", "}", "[", "]", ":", ",", QUOTE, "-", "+", ".", "/", " ", "~"}

FRONTMATTER_BOUNDARY ==
    <<"-", "-", "-", "-", "-", "-", "-", "-", "-",
      "-", "-", "-", "-", "-", "-", "-", "-", "-">>

MaxScanTokenSize == 65536

NoFile == <<"<absent>">>

RECURSIVE Concat(_)
Concat(ss) == IF ss = <<>> THEN <<>> ELSE Head(ss) \o Concat(Tail(ss))

(* first index >= i of byte b in s, 0 when there is none *)
IndexByte(s, b, i) ==
    IF \E j \in i..Len(s) : s[j] = b
    THEN CHOOSE j \in i..Len(s) : s[j] = b /\ \A k \in i..(j - 1) : s[k] # b
    ELSE 0

RECURSIVE LastIndexByte(_, _, _)
(* last index <= i of byte b in s, 0 when there is none *)
LastIndexByte(s, b, i) ==
    IF i < 1 THEN 0
    ELSE IF s[i] = b THEN i
    ELSE LastIndexByte(s, b, i - 1)

-----------------------------------------------------------------------------
(* bufio.Scanner with the ScanLines split function *)

dropCR(data) ==
    IF Len(data) > 0 /\ data[Len(data)] = CR
    THEN SubSeq(data, 1, Len(data) - 1)
    ELSE data

(* One call of scanner.Scan on the unread bytes: ok is the result of Scan,  *)
(* token the line, rest the bytes left, err the error of the scanner.     *)
ScanNext(rest) ==
    LET i == IndexByte(rest, LF, 1) IN
    IF rest = <<>>
    THEN [ok |-> FALSE, token |-> <<>>, rest |-> <<>>, err |-> FALSE]
    ELSE IF (i = 0 /\ Len(rest) >= MaxScanTokenSize) \/ i > MaxScanTokenSize
    THEN [ok |-> FALSE, token |-> <<>>, rest |-> rest, err |-> TRUE]
    ELSE IF i > 0
    THEN [ok |-> TRUE, token |-> dropCR(SubSeq(rest, 1, i - 1)),
          rest |-> SubSeq(rest, i + 1, Len(rest)), err |-> FALSE]
    ELSE [ok |-> TRUE, token |-> dropCR(rest), rest |-> <<>>, err |-> FALSE]

-----------------------------------------------------------------------------
(* addFrontmatter: the bytes written to the file *)

(* mutant: the newline between the data and the closing boundary is lost *)
addFrontmatterNoNewline(data) ==
    FRONTMATTER_BOUNDARY \o <<LF>> \o data \o FRONTMATTER_BOUNDARY \o <<LF>>

addFrontmatter(data) ==
    FRONTMATTER_BOUNDARY \o <<LF>> \o data \o <<LF>> \o FRONTMATTER_BOUNDARY \o <<LF>>

-----------------------------------------------------------------------------
(* readPost: the body of the scanning loop, and the whole function *)

ReadInit == [boundaryCount |-> 0, bufFrontMatter |-> <<>>, bufContent |-> <<>>,
             discarded |-> 0]

(* mutant: a body line is copied without its newline *)
readPostLineNoNewline(st, b) ==
    IF b = FRONTMATTER_BOUNDARY /\ st.boundaryCount < 2
    THEN [st EXCEPT !.boundaryCount = @ + 1, !.discarded = @ + 1]
    ELSE IF st.boundaryCount < 2
    THEN [st EXCEPT !.bufFrontMatter = @ \o b]
    ELSE [st EXCEPT !.bufContent = @ \o b]

(* mutant: the body starts after the first boundary *)
readPostLineOneBoundary(st, b) ==
    IF b = FRONTMATTER_BOUNDARY /\ st.boundaryCount < 1
    THEN [st EXCEPT !.boundaryCount = @ + 1, !.discarded = @ + 1]
    ELSE IF st.boundaryCount < 1
    THEN [st EXCEPT !.bufFrontMatter = @ \o b]
    ELSE [st EXCEPT !.bufContent = @ \o b \o <<LF>>]

(* mutant: the lines in front of the first boundary are taken as body *)
readPostLineLeadingBody(st, b) ==
    IF b = FRONTMATTER_BOUNDARY /\ st.boundaryCount < 2
    THEN [st EXCEPT !.boundaryCount = @ + 1, !.discarded = @ + 1]
    ELSE IF st.boundaryCount = 1
    THEN [st EXCEPT !.bufFrontMatter = @ \o b]
    ELSE [st EXCEPT !.bufContent = @ \o b \o <<LF>>]

(* mutant: every line equal to the boundary is counted and dropped *)
readPostLineEveryBoundary(st, b) ==
    IF b = FRONTMATTER_BOUNDARY
    THEN [st EXCEPT !.boundaryCount = @ + 1, !.discarded = @ + 1]
    ELSE IF st.boundaryCount < 2
    THEN [st EXCEPT !.bufFrontMatter = @ \o b]
    ELSE [st EXCEPT !.bufContent = @ \o b \o <<LF>>]

readPostLine(st, b) ==
    IF b = FRONTMATTER_BOUNDARY /\ st.boundaryCount < 2
    THEN [st EXCEPT !.boundaryCount = @ + 1, !.discarded = @ + 1]
    ELSE IF st.boundaryCount < 2
    THEN [st EXCEPT !.bufFrontMatter = @ \o b]
    ELSE [st EXCEPT !.bufContent = @ \o b \o <<LF>>]

RECURSIVE readPostLoop(_, _)
readPostLoop(st, rest) ==
    LET sc == ScanNext(rest) IN
    IF sc.ok THEN readPostLoop(readPostLine(st, sc.token), sc.rest)
    ELSE IF sc.err
    THEN [err |-> "scan", frontmatter |-> <<>>, content |-> <<>>]
    ELSE [err |-> "", frontmatter |-> st.bufFrontMatter, content |-> st.bufContent]

readPost(f) ==
    IF f = NoFile
    THEN [err |-> "open", frontmatter |-> <<>>, content |-> <<>>]
    ELSE readPostLoop(ReadInit, f)

-----------------------------------------------------------------------------
(* encoding/json: the JSON grammar over the byte alphabet.  A parsed value  *)
(* is a record: kind is "str", "num", "lit", "arr" or "obj"; text is the    *)
(* content of a string or the literal text of a number or literal; keys    *)
(* are the member names of an object; items the elements of an array or    *)
(* the member values of an object.  The alphabet has no backslash, so a    *)
(* string has no escape sequence.                                          *)

JVal(k, t, ks, is) == [kind |-> k, text |-> t, keys |-> ks, items |-> is]

JFail == [ok |-> FALSE, pos |-> 0, val |-> JVal("bad", <<>>, <<>>, <<>>)]

JOk(p, v) == [ok |-> TRUE, pos |-> p, val |-> v]

At(s, i) == IF i >= 1 /\ i <= Len(s) THEN s[i] ELSE "<eof>"

IsSpace(c) == c \in {" ", "\t", CR, LF}

RECURSIVE SkipWS(_, _)
SkipWS(s, i) == IF IsSpace(At(s, i)) THEN SkipWS(s, i + 1) ELSE i

RECURSIVE SkipDigits(_, _)
SkipDigits(s, i) == IF At(s, i) \in Digit THEN SkipDigits(s, i + 1) ELSE i

(* a byte that ends the scan of a string: the quote or a control byte *)
StringStop(c) == c = QUOTE \/ c \in CtrlByte

(* index of the closing quote of a string whose content starts at i, or 0 *)
StringEnd(s, i) ==
    IF \E j \in i..Len(s) : StringStop(s[j])
    THEN LET e == CHOOSE j \in i..Len(s) :
                      StringStop(s[j]) /\ \A k \in i..(j - 1) : ~StringStop(s[k])
         IN  IF s[e] = QUOTE THEN e ELSE 0
    ELSE 0

ParseString(s, i) ==
    LET j == StringEnd(s, i + 1) IN
    IF At(s, i) # QUOTE \/ j = 0 THEN JFail
    ELSE JOk(j + 1, JVal("str", SubSeq(s, i + 1, j - 1), <<>>, <<>>))

ParseNumber(s, i) ==
    LET p1 == IF At(s, i) = "-" THEN i + 1 ELSE i
        p2 == IF At(s, p1) = "0" THEN p1 + 1 ELSE SkipDigits(s, p1)
        fr == At(s, p2) = "."
        p3 == IF fr THEN SkipDigits(s, p2 + 1) ELSE p2
        ex == At(s, p3) \in {"e", "E"}
        q  == IF At(s, p3 + 1) \in {"+", "-"} THEN p3 + 2 ELSE p3 + 1
        p4 == IF ex THEN SkipDigits(s, q) ELSE p3
    IN  IF p2 = p1 \/ (fr /\ p3 = p2 + 1) \/ (ex /\ p4 = q) THEN JFail
        ELSE JOk(p4, JVal("num", SubSeq(s, i, p4 - 1), <<>>, <<>>))

JLiterals == {<<"t", "r", "u", "e">>, <<"f", "a", "l", "s", "e">>, <<"n", "u", "l", "l">>}

JNull == <<"n", "u", "l", "l">>

IsLiteralAt(s, i, w) ==
    i >= 1 /\ i + Len(w) - 1 <= Len(s) /\ SubSeq(s, i, i + Len(w) - 1) = w

ParseLiteral(s, i) ==
    IF \E w \in JLiterals : IsLiteralAt(s, i, w)
    THEN LET w == CHOOSE x \in JLiterals : IsLiteralAt(s, i, x)
         IN  JOk(i + Len(w), JVal("lit", w, <<>>, <<>>))
    ELSE JFail

RECURSIVE ParseValue(_, _), ParseElems(_, _, _), ParseMembers(_, _, _, _)

ParseValue(s, i) ==
    LET c == At(s, i) IN
    IF c = "{"
    THEN LET j == SkipWS(s, i + 1) IN
         IF At(s, j) = "}" THEN JOk(j + 1, JVal("obj", <<>>, <<>>, <<>>))
         ELSE ParseMembers(s, j, <<>>, <<>>)
    ELSE IF c = "["
    THEN LET j == SkipWS(s, i + 1) IN
         IF At(s, j) = "]" THEN JOk(j + 1, JVal("arr", <<>>, <<>>, <<>>))
         ELSE ParseElems(s, j, <<>>)
    ELSE IF c = QUOTE THEN ParseString(s, i)
    ELSE IF c = "-" \/ c \in Digit THEN ParseNumber(s, i)
    ELSE ParseLiteral(s, i)

(* the elements of an array, i at the first byte of an element *)
ParseElems(s, i, acc) ==
    LET r == ParseValue(s, i)
        j == SkipWS(s, r.pos)
    IN  IF ~r.ok THEN JFail
        ELSE IF At(s, j) = "," THEN ParseElems(s, SkipWS(s, j + 1), Append(acc, r.val))
        ELSE IF At(s, j) = "]" THEN JOk(j + 1, JVal("arr", <<>>, <<>>, Append(acc, r.val)))
        ELSE JFail

(* the members of an object, i at the first byte of a member name *)
ParseMembers(s, i, ks, vs) ==
    LET k == ParseString(s, i)
        c == SkipWS(s, k.pos)
        r == ParseValue(s, SkipWS(s, c + 1))
        j == SkipWS(s, r.pos)
    IN  IF ~k.ok \/ At(s, c) # ":" THEN JFail
        ELSE IF ~r.ok THEN JFail
        ELSE IF At(s, j) = ","
        THEN ParseMembers(s, SkipWS(s, j + 1), Append(ks, k.val.text), Append(vs, r.val))
        ELSE IF At(s, j) = "}"
        THEN JOk(j + 1, JVal("obj", <<>>, Append(ks, k.val.text), Append(vs, r.val)))
        ELSE JFail

(* nothing but white space follows the value r parsed from data *)
WholeInput(r, data) ==
    IF r.ok /\ SkipWS(data, r.pos) = Len(data) + 1 THEN r ELSE JFail

(* the whole input is one JSON value between optional white space *)
ParseJSON(data) == WholeInput(ParseValue(data, SkipWS(data, 1)), data)

checkValid(data) == ParseJSON(data).ok

-----------------------------------------------------------------------------
(* json.Unmarshal into a Post.  Member names are matched against the json   *)
(* tags of the struct without regard to the case of letters; the tags       *)
(* "markdown" and "html" cannot be spelled with the byte alphabet.  A value *)
(* of the wrong type leaves its field alone, decoding goes on, and the      *)
(* first such error is returned.                                            *)

UpperCase == <<"A", "B", "C", "D", "E", "F", "G", "H", "I", "J", "K", "L", "M",
               "N", "O", "P", "Q", "R", "S", "T", "U", "V", "W", "X", "Y", "Z">>
LowerCase == <<"a", "b", "c", "d", "e", "f", "g", "h", "i", "j", "k", "l", "m",
               "n", "o", "p", "q", "r", "s", "t", "u", "v", "w", "x", "y", "z">>

ToLower(b) ==
    IF \E i \in 1..26 : UpperCase[i] = b
    THEN LowerCase[CHOOSE i \in 1..26 : UpperCase[i] = b]
    ELSE b

FoldKey(key) == [i \in 1..Len(key) |-> ToLower(key[i])]

ZeroPost == [Markdown |-> <<>>, HTML |-> "", Layout |-> <<>>, Title |-> <<>>,
             Date |-> <<>>, Description |-> <<>>, Tags |-> <<>>, RootName |-> <<>>]

TagLayout == <<"l", "a", "y", "o", "u", "t">>
TagTitle == <<"t", "i", "t", "l", "e">>
TagDate == <<"d", "a", "t", "e">>
TagDescription == <<"d", "e", "s", "c", "r", "i", "p", "t", "i", "o", "n">>
TagTags == <<"t", "a", "g", "s">>
TagRootName == <<"r", "o", "o", "t", "_", "n", "a", "m", "e">>

StringField(key) ==
    CASE key = TagLayout -> "Layout"
      [] key = TagTitle -> "Title"
      [] key = TagDate -> "Date"
      [] key = TagDescription -> "Description"
      [] key = TagRootName -> "RootName"
      [] OTHER -> ""

IsNull(v) == v.kind = "lit" /\ v.text = JNull

(* one member of the object decoded into the post *)
DecodeMember(p, key, v) ==
    IF StringField(FoldKey(key)) # ""
    THEN IF v.kind = "str"
         THEN [post |-> [p EXCEPT ![StringField(FoldKey(key))] = v.text], err |-> ""]
         ELSE IF IsNull(v) THEN [post |-> p, err |-> ""]
         ELSE [post |-> p, err |-> "type"]
    ELSE IF FoldKey(key) = TagTags
    THEN IF v.kind = "arr"
         THEN [post |-> [p EXCEPT !.Tags =
                            [i \in 1..Len(v.items) |->
                                IF v.items[i].kind = "str" THEN v.items[i].text ELSE <<>>]],
               err |-> IF \E i \in 1..Len(v.items) :
                              v.items[i].kind # "str" /\ ~IsNull(v.items[i])
                       THEN "type" ELSE ""]
         ELSE IF IsNull(v) THEN [post |-> [p EXCEPT !.Tags = <<>>], err |-> ""]
         ELSE [post |-> p, err |-> "type"]
    ELSE [post |-> p, err |-> ""]

RECURSIVE DecodeMembers(_, _, _)
DecodeMembers(acc, obj, i) ==
    IF i > Len(obj.keys) THEN acc
    ELSE LET d == DecodeMember(acc.post, obj.keys[i], obj.items[i]) IN
         DecodeMembers([post |-> d.post,
                        err |-> IF acc.err # "" THEN acc.err ELSE d.err], obj, i + 1)

(* a value decoded into a Post *)
DecodePost(p, v) ==
    IF v.kind = "obj" THEN DecodeMembers([post |-> p, err |-> ""], v, 1)
    ELSE IF IsNull(v) THEN [post |-> p, err |-> ""]
    ELSE [post |-> p, err |-> "type"]

(* the input is checked as a whole before anything is decoded *)
UnmarshalParsed(r, p) ==
    IF ~r.ok THEN [post |-> p, err |-> "syntax"] ELSE DecodePost(p, r.val)

(* json.Unmarshal(data, &post) *)
Unmarshal(data, p) == UnmarshalParsed(ParseJSON(data), p)

-----------------------------------------------------------------------------
(* postRootName *)

(* mutant: only the last extension is stripped *)
postRootNameLastDot(path) ==
    LET filename == SubSeq(path, LastIndexByte(path, "/", Len(path)) + 1, Len(path))
        dot == LastIndexByte(filename, ".", Len(filename))
    IN  IF dot = 0 THEN filename ELSE SubSeq(filename, 1, dot - 1)

postRootName(path) ==
    LET filename == SubSeq(path, LastIndexByte(path, "/", Len(path)) + 1, Len(path))
        dot == IndexByte(filename, ".", 1)
    IN  IF dot = 0 THEN filename ELSE SubSeq(filename, 1, dot - 1)

-----------------------------------------------------------------------------
(* mdToHTML.  The markdown library is modelled by its block structure: a    *)
(* fenced code block (two fence lines of "~~~") is a CodeBlock leaf, a run  *)
(* of other non-blank lines a Paragraph holding one Text leaf.  ast.Walk   *)
(* visits a container on entering and on leaving and a leaf once; the      *)
(* renderer asks the render hook first.  A writer is the sequence of the   *)
(* strings written to it.                                                  *)

RECURSIVE Str(_)
(* string(bytes) *)
Str(bs) == IF bs = <<>> THEN "" ELSE Head(bs) \o Str(Tail(bs))

RECURSIVE Join(_)
(* the text a writer holds *)
Join(w) == IF w = <<>> THEN "" ELSE Head(w) \o Join(Tail(w))

RECURSIVE EscapeHTML(_)
EscapeHTML(bs) ==
    IF bs = <<>> THEN ""
    ELSE (IF Head(bs) = QUOTE THEN "&quot;" ELSE Head(bs)) \o EscapeHTML(Tail(bs))

Node(t, lit) == [Type |-> t, Literal |-> lit]

CodeOpen == "<div class='highlight'><pre class='highlight'><code>"
CodeClose == "</code></pre></div>"

(* mutant: the code block is written on both visits *)
renderCodeBlockBothVisits(w, c, entering) ==
    w \o <<CodeOpen>> \o <<Str(c.Literal)>> \o <<CodeClose>>

renderCodeBlock(w, c, entering) ==
    IF entering
    THEN w \o <<CodeOpen>> \o <<Str(c.Literal)>> \o <<CodeClose>>
    ELSE w

myRenderHook(w, node, entering) ==
    IF node.Type = "CodeBlock"
    THEN [w |-> renderCodeBlock(w, node, entering), status |-> "GoToNext", handled |-> TRUE]
    ELSE [w |-> w, status |-> "GoToNext", handled |-> FALSE]

(* html.Renderer.RenderNode with RenderNodeHook set to myRenderHook *)
RenderNode(w, node, entering) ==
    LET h == myRenderHook(w, node, entering) IN
    IF h.handled THEN h.w
    ELSE CASE node.Type = "Paragraph" -> w \o <<IF entering THEN "<p>" ELSE "</p>\n">>
           [] node.Type = "Text" -> w \o <<EscapeHTML(node.Literal)>>
           [] node.Type = "CodeBlock" ->
                  w \o <<"<pre><code>", EscapeHTML(node.Literal), "</code></pre>\n">>
           [] OTHER -> w

RECURSIVE SplitLines(_)
SplitLines(bs) ==
    LET i == IndexByte(bs, LF, 1) IN
    IF bs = <<>> THEN <<>>
    ELSE IF i = 0 THEN <<bs>>
    ELSE <<SubSeq(bs, 1, i - 1)>> \o SplitLines(SubSeq(bs, i + 1, Len(bs)))

IsBlank(line) == \A i \in 1..Len(line) : line[i] \in {" ", "\t", CR}

IsFence(line) == Len(line) >= 3 /\ \A i \in 1..3 : line[i] = "~"

RECURSIVE FindFence(_, _)
FindFence(lines, i) ==
    IF i > Len(lines) THEN 0
    ELSE IF IsFence(lines[i]) THEN i
    ELSE FindFence(lines, i + 1)

RECURSIVE ParaLen(_, _)
(* number of lines of the paragraph that starts at line 1, i the next line *)
ParaLen(lines, i) ==
    IF i > Len(lines) \/ IsBlank(lines[i]) \/ (IsFence(lines[i]) /\ FindFence(lines, i + 1) # 0)
    THEN i - 1
    ELSE ParaLen(lines, i + 1)

RECURSIVE JoinLines(_)
JoinLines(lines) ==
    IF lines = <<>> THEN <<>>
    ELSE IF Len(lines) = 1 THEN lines[1]
    ELSE lines[1] \o <<LF>> \o JoinLines(Tail(lines))

RECURSIVE TermLines(_)
TermLines(lines) ==
    IF lines = <<>> THEN <<>> ELSE lines[1] \o <<LF>> \o TermLines(Tail(lines))

RECURSIVE Visits(_)
(* the visits of ast.Walk to the blocks of a document *)
Visits(lines) ==
    IF lines = <<>> THEN <<>>
    ELSE IF IsBlank(lines[1]) THEN Visits(Tail(lines))
    ELSE IF IsFence(lines[1]) /\ FindFence(lines, 2) # 0
    THEN LET c == FindFence(lines, 2) IN
         <<[node |-> Node("CodeBlock", TermLines(SubSeq(lines, 2, c - 1))), entering |-> TRUE]>>
         \o Visits(SubSeq(lines, c + 1, Len(lines)))
    ELSE LET n == ParaLen(lines, 2) IN
         <<[node |-> Node("Paragraph", <<>>), entering |-> TRUE],
           [node |-> Node("Text", JoinLines(SubSeq(lines, 1, n))), entering |-> TRUE],
           [node |-> Node("Paragraph", <<>>), entering |-> FALSE]>>
         \o Visits(SubSeq(lines, n + 1, Len(lines)))

RECURSIVE Render(_, _)
Render(w, vs) ==
    IF vs = <<>> THEN w
    ELSE Render(RenderNode(w, Head(vs).node, Head(vs).entering), Tail(vs))

mdToHTML(md) ==
    Join(Render(<<>>,
                <<[node |-> Node("Document", <<>>), entering |-> TRUE]>>
                \o Visits(SplitLines(md))
                \o <<[node |-> Node("Document", <<>>), entering |-> FALSE]>>))

-----------------------------------------------------------------------------
(* parsePost on the content f of the file at path *)

(* mutant: the post is filled before the decoding error is looked at *)
parsePostFillFirst(u, path, content) ==
    [post |-> [u.post EXCEPT !.Markdown = content,
                             !.HTML = mdToHTML(content),
                             !.RootName = postRootName(path)],
     err |-> IF u.err # "" THEN "unmarshal" ELSE ""]

(* parsePost after json.Unmarshal has returned u *)
parsePostFill(u, path, content) ==
    IF u.err # "" THEN [post |-> u.post, err |-> "unmarshal"]
    ELSE [post |-> [u.post EXCEPT !.Markdown = content,
                                  !.HTML = mdToHTML(content),
                                  !.RootName = postRootName(path)],
          err |-> ""]

(* parsePost after readPost has returned without error *)
parsePostDecode(path, frontmatter, content) ==
    parsePostFill(Unmarshal(frontmatter, ZeroPost), path, content)

(* parsePost after readPost has returned r *)
parsePostRead(r, path) ==
    IF r.err # "" THEN [post |-> ZeroPost, err |-> "read"]
    ELSE parsePostDecode(path, r.frontmatter, r.content)

parsePost(path, f) == parsePostRead(readPost(f), path)

-----------------------------------------------------------------------------
(* The documents and metadata the codec is run on *)

LineBoundarySp == FRONTMATTER_BOUNDARY \o <<" ">>
LineObject == <<"{", QUOTE, "t", "i", "t", "l", "e", QUOTE, ":", QUOTE, "A", QUOTE, "}">>
LineOpen == <<"{", QUOTE, "t", "i", "t", "l", "e", QUOTE, ":">>
LineClose == <<QUOTE, "A", QUOTE, "}">>
LineMistyped == <<"{", QUOTE, "r", "o", "o", "t", "_", "n", "a", "m", "e", QUOTE, ":",
                  QUOTE, "x", QUOTE, ",", QUOTE, "t", "i", "t", "l", "e", QUOTE, ":", "1", "}">>
LineBody == <<"B", "o", "d", "y">>
LineBlank == <<>>

LineSet == {FRONTMATTER_BOUNDARY, LineBoundarySp, LineObject, LineOpen, LineClose,
            LineMistyped, LineBody, LineBlank}

Styles == {"lf", "crlf", "nofinal"}

DocLines == UNION {[1..n -> LineSet] : n \in 0..MaxLines}

RECURSIVE DocBytes(_, _)
(* the bytes of a document of these lines; "nofinal" leaves the last line  *)
(* without its terminator                                                  *)
DocBytes(lines, style) ==
    IF lines = <<>> THEN <<>>
    ELSE lines[1]
         \o (IF style = "crlf" THEN <<CR, LF>>
             ELSE IF style = "nofinal" /\ Len(lines) = 1 THEN <<>>
             ELSE <<LF>>)
         \o DocBytes(Tail(lines), style)

FragSet == {<<"{">>, <<"}">>, <<QUOTE, "t", "i", "t", "l", "e", QUOTE, ":", QUOTE, "A", QUOTE>>,
            LineOpen, LineClose, <<"[", "1">>, <<"2", "]">>}

Seps == {<<>>, <<" ">>, <<LF>>, <<CR, LF>>}

Trailers == {<<>>, <<LF>>, <<CR>>}

RECURSIVE JoinSep(_, _)
JoinSep(frags, sep) ==
    IF frags = <<>> THEN <<>>
    ELSE IF Len(frags) = 1 THEN frags[1]
    ELSE frags[1] \o sep \o JoinSep(Tail(frags), sep)

MetaFrags == UNION {[1..n -> FragSet] : n \in 0..MaxFrags}

PostPaths == {<<"p", "o", "s", "t", "s", "/", "a", ".", "m", "d">>}

-----------------------------------------------------------------------------
(* The codec: a document is written by addFrontmatter or by the user, then  *)
(* parsePost reads it line by line and decodes the metadata.               *)

CodecStart ==
    /\ file = NoFile
    /\ origin = "none"
    /\ fmData = <<>>
    /\ docLines = <<>>
    /\ ppath = <<>>
    /\ rpc = "idle"
    /\ scanRest = <<>>
    /\ boundaryCount = 0
    /\ bufFrontMatter = <<>>
    /\ bufContent = <<>>
    /\ discarded = 0
    /\ post = ZeroPost
    /\ perr = ""

(* the user writes the document with an editor *)
UserWrite ==
    /\ rpc = "idle" /\ origin = "none"
    /\ \E lines \in DocLines, style \in Styles :
          /\ style = "nofinal" => (lines # <<>> /\ lines[Len(lines)] # LineBlank)
          /\ file' = DocBytes(lines, style)
          /\ docLines' = lines
    /\ origin' = "user"
    /\ UNCHANGED <<fmData, ppath, rpc, scanRest, boundaryCount, bufFrontMatter,
                   bufContent, discarded, post, perr>>
    /\ UNCHANGED <<fnVars, siteVars>>

(* addFrontmatter(filepath, data) *)
AddFrontmatter ==
    /\ rpc = "idle" /\ origin = "none"
    /\ \E frags \in MetaFrags, sep \in Seps, tr \in Trailers :
          LET data == JoinSep(frags, sep) \o tr IN
          /\ file' = addFrontmatter(data)
          /\ fmData' = data
    /\ origin' = "add"
    /\ UNCHANGED <<docLines, ppath, rpc, scanRest, boundaryCount, bufFrontMatter,
                   bufContent, discarded, post, perr>>
    /\ UNCHANGED <<fnVars, siteVars>>

(* parsePost(path) up to the os.Open of readPost *)
ReadPostOpen ==
    /\ rpc = "idle"
    /\ \E path \in PostPaths : ppath' = path
    /\ IF file = NoFile
       THEN /\ rpc' = "done"
            /\ perr' = "read"
            /\ UNCHANGED <<scanRest, boundaryCount, bufFrontMatter, bufContent, discarded>>
       ELSE /\ rpc' = "scan"
            /\ scanRest' = file
            /\ boundaryCount' = ReadInit.boundaryCount
            /\ bufFrontMatter' = ReadInit.bufFrontMatter
            /\ bufContent' = ReadInit.bufContent
            /\ discarded' = ReadInit.discarded
            /\ perr' = perr
    /\ UNCHANGED <<file, origin, fmData, docLines, post>>
    /\ UNCHANGED <<fnVars, siteVars>>

(* one iteration of the scanning loop of readPost *)
ReadPostScan ==
    /\ rpc = "scan"
    /\ ScanNext(scanRest).ok
    /\ LET sc == ScanNext(scanRest)
           st == readPostLine([boundaryCount |-> boundaryCount,
                               bufFrontMatter |-> bufFrontMatter,
                               bufContent |-> bufContent,
                               discarded |-> discarded], sc.token)
       IN  /\ scanRest' = sc.rest
           /\ boundaryCount' = st.boundaryCount
           /\ bufFrontMatter' = st.bufFrontMatter
           /\ bufContent' = st.bufContent
           /\ discarded' = st.discarded
    /\ UNCHANGED <<file, origin, fmData, docLines, ppath, rpc, post, perr>>
    /\ UNCHANGED <<fnVars, siteVars>>

(* the scanner is exhausted: readPost returns, parsePost decodes the       *)
(* metadata and fills the post                                             *)
ParsePostReturn ==
    /\ rpc = "scan"
    /\ ~ScanNext(scanRest).ok
    /\ LET d == parsePostDecode(ppath, bufFrontMatter, bufContent) IN
       IF ScanNext(scanRest).err
       THEN perr' = "read" /\ post' = ZeroPost
       ELSE perr' = d.err /\ post' = d.post
    /\ rpc' = "done"
    /\ UNCHANGED <<file, origin, fmData, docLines, ppath, scanRest, boundaryCount,
                   bufFrontMatter, bufContent, discarded>>
    /\ UNCHANGED <<fnVars, siteVars>>

(* the stepwise run of parsePost returns what the function returns *)
CodecAgrees ==
    rpc = "done" => [post |-> post, err |-> perr] = parsePost(ppath, file)

-----------------------------------------------------------------------------
(* Properties of the codec and of parsePost *)

IsBoundary(line) == line = FRONTMATTER_BOUNDARY

BoundaryLines(lines) == {i \in 1..Len(lines) : IsBoundary(lines[i])}

RECURSIVE NonBoundary(_)
(* the lines that are not the boundary literal, in order *)
NonBoundary(lines) ==
    IF lines = <<>> THEN <<>>
    ELSE IF IsBoundary(lines[1]) THEN NonBoundary(Tail(lines))
    ELSE <<lines[1]>> \o NonBoundary(Tail(lines))

ReadDone == rpc = "done" /\ perr # "read"

(* C1: frontmatter round trip.  For every valid JSON object M, the file     *)
(* written by addFrontmatter(M) is read back as a metadata buffer that is   *)
(* valid JSON and decodes to the same value as M, both as a JSON tree and   *)
(* as a Post, and as an empty body.                                         *)
C1_RoundTrip ==
    (rpc = "done" /\ origin = "add" /\ checkValid(fmData)
        /\ ParseJSON(fmData).val.kind = "obj")
    => /\ perr # "read"
       /\ checkValid(bufFrontMatter)
       /\ ParseJSON(bufFrontMatter).val = ParseJSON(fmData).val
       /\ Unmarshal(bufFrontMatter, ZeroPost) = Unmarshal(fmData, ZeroPost)
       /\ bufContent = <<>>
       /\ post.Markdown = <<>>

C1_Witness ==
    /\ rpc = "done" /\ origin = "add" /\ checkValid(fmData)
    /\ ParseJSON(fmData).val.kind = "obj"
    /\ Len(ParseJSON(fmData).val.keys) > 0
    /\ IndexByte(fmData, LF, 1) # 0
    /\ post.Title = <<"A">>

(* a document of a boundary line, k metadata lines, a boundary line and n   *)
(* body lines: the index of its second boundary line, or 0                  *)
SecondBoundary(lines) ==
    IF Len(lines) >= 2 /\ IsBoundary(lines[1]) /\ BoundaryLines(lines) # {1}
    THEN CHOOSE j \in BoundaryLines(lines) \ {1} :
             \A i \in BoundaryLines(lines) \ {1} : j <= i
    ELSE 0

(* C2: decode of a well-formed document.  For a document of a boundary      *)
(* line, k metadata lines, a second boundary line and n >= 0 body lines,    *)
(* readPost returns the metadata lines concatenated without terminators     *)
(* and every body line followed by exactly one newline.                     *)
C2_WellFormedDecode ==
    (ReadDone /\ origin = "user" /\ SecondBoundary(docLines) # 0)
    => LET j == SecondBoundary(docLines) IN
       /\ bufFrontMatter = Concat(SubSeq(docLines, 2, j - 1))
       /\ bufContent = TermLines(SubSeq(docLines, j + 1, Len(docLines)))

C2_Witness ==
    /\ ReadDone /\ origin = "user" /\ SecondBoundary(docLines) = 3
    /\ Len(docLines) = 4
    /\ docLines[2] # <<>> /\ docLines[4] # <<>>
    /\ bufContent = docLines[4] \o <<LF>>

(* C3: with fewer than two boundary lines readPost never enters body mode:  *)
(* the counter stays below 2, the body stays empty, and the metadata        *)
(* buffer returned holds every non-boundary line of the document.           *)
C3_FewerThanTwoBoundaries ==
    (origin = "user" /\ Cardinality(BoundaryLines(docLines)) < 2)
    => /\ boundaryCount < 2
       /\ bufContent = <<>>
       /\ ReadDone => bufFrontMatter = Concat(NonBoundary(docLines))

C3_Witness ==
    /\ ReadDone /\ origin = "user"
    /\ Cardinality(BoundaryLines(docLines)) = 1
    /\ Len(docLines) >= 3 /\ IsBoundary(docLines[2])
    /\ docLines[1] # <<>> /\ docLines[3] # <<>>
    /\ bufFrontMatter = docLines[1] \o docLines[3]

(* C4 as claimed: parsePost of a document without boundary lines succeeds   *)
(* and the text of the document is the markup body of the post.             *)
C4_Original ==
    (rpc = "done" /\ origin = "user" /\ BoundaryLines(docLines) = {})
    => perr = "" /\ post.Markdown = TermLines(docLines)

(* C4 amended: for a document without boundary lines every line goes to     *)
(* the metadata buffer and the body is empty; parsePost succeeds exactly    *)
(* when the concatenated lines decode as a Post, and the post then has an   *)
(* empty markup body and empty HTML.                                        *)
C4_NoFrontmatter ==
    (rpc = "done" /\ origin = "user" /\ BoundaryLines(docLines) = {})
    => /\ bufContent = <<>>
       /\ bufFrontMatter = Concat(docLines)
       /\ (perr = "") <=> (Unmarshal(Concat(docLines), ZeroPost).err = "")
       /\ perr = "" => (post.Markdown = <<>> /\ post.HTML = "")

C4_Witness ==
    /\ rpc = "done" /\ origin = "user" /\ BoundaryLines(docLines) = {}
    /\ Len(docLines) = 2 /\ docLines[1] = LineOpen
    /\ perr = "" /\ post.Title = <<"A">> /\ post.Markdown = <<>>

(* C5 as claimed: when the metadata buffer is not valid JSON of the Post    *)
(* shape parsePost returns an error and the body, the HTML and the root     *)
(* name of the returned post are not set.                                   *)
C5_Original ==
    (ReadDone /\ Unmarshal(bufFrontMatter, ZeroPost).err # "")
    => /\ perr # ""
       /\ post.Markdown = <<>> /\ post.HTML = "" /\ post.RootName = <<>>

(* C5 amended: when the metadata buffer is not valid JSON of the Post       *)
(* shape parsePost returns an error and the returned post is what           *)
(* json.Unmarshal left in it: the zero Post for a syntax error, and for a   *)
(* type mismatch the members decoded (root_name among them); the body of    *)
(* the document, its HTML and the root name of the path are not assigned.   *)
C5_DecodeError ==
    (ReadDone /\ Unmarshal(bufFrontMatter, ZeroPost).err # "")
    => /\ perr = "unmarshal"
       /\ post = Unmarshal(bufFrontMatter, ZeroPost).post
       /\ ~checkValid(bufFrontMatter) => post = ZeroPost
       /\ bufContent # <<>> => post.Markdown # bufContent

C5_Witness ==
    /\ ReadDone /\ perr = "unmarshal"
    /\ checkValid(bufFrontMatter)
    /\ bufContent # <<>>
    /\ post.RootName = <<"x">> /\ post.Markdown = <<>>

-----------------------------------------------------------------------------
(* The working directory.  A path is a sequence of names, a name a sequence *)
(* of bytes; the file system maps the paths that exist to their entries.    *)
(* A file holds bytes or, for a page the build has written, the page.       *)

CONFIG_FILE == <<"c", "o", "n", "f", "i", "g", ".", "j", "s", "o", "n">>
INDEX_FILE == <<"i", "n", "d", "e", "x", ".", "m", "d">>
BLOG_FILE == <<"b", "l", "o", "g", ".", "m", "d">>
MARKDOWN_DIR == <<"m", "a", "r", "k", "d", "o", "w", "n">>
SITE_DIR == <<"d", "o", "c", "s">>
ASSETS_DIR == <<"a", "s", "s", "e", "t", "s">>

INCLUDES_HEAD == "Head"
INCLUDES_HEADER == "Header"
INCLUDES_FOOTER == "Footer"
INCLUDES_FOOTERPOST == "FooterPost"

specialFiles == <<INDEX_FILE, BLOG_FILE>>

NamePosts == <<"p", "o", "s", "t", "s">>
NameTags == <<"t", "a", "g", "s">>
NameBlog == <<"b", "l", "o", "g">>
NameTagged == <<"t", "a", "g", "g", "e", "d">>

ZeroTag == [Slug |-> <<>>, Layout |-> <<>>]

ZeroConfig == [Title |-> <<>>, Description |-> <<>>, URL |-> <<>>, Tags |-> <<>>, Posts |-> <<>>]

NoIncludes == [k \in {} |-> ""]

NoPage == [layout |-> <<>>, post |-> ZeroPost, tag |-> ZeroTag, includes |-> NoIncludes,
           site |-> ZeroConfig, whole |-> TRUE]

DirEntry == [dir |-> TRUE, bytes |-> <<>>, page |-> NoPage]

FileEntry(b) == [dir |-> FALSE, bytes |-> b, page |-> NoPage]

PageEntry(pg) == [dir |-> FALSE, bytes |-> <<>>, page |-> pg]

EmptyFS == [p \in {} |-> DirEntry]

HasPrefix(p, q) == Len(p) >= Len(q) /\ SubSeq(p, 1, Len(q)) = q

Prefixes(p) == {SubSeq(p, 1, k) : k \in 1..Len(p)}

Parent(p) == SubSeq(p, 1, Len(p) - 1)

IsDir(f, p) == p \in DOMAIN f /\ f[p].dir

IsFile(f, p) == p \in DOMAIN f /\ ~f[p].dir

(* a directory that exists, the working directory itself included *)
DirExists(f, p) == p = <<>> \/ IsDir(f, p)

Put(f, p, e) == [q \in DOMAIN f \cup {p} |-> IF q = p THEN e ELSE f[q]]

(* os.RemoveAll *)
RemoveAll(f, p) == [q \in {r \in DOMAIN f : ~HasPrefix(r, p)} |-> f[q]]

(* os.MkdirAll: fails when a name on the way is a file *)
MkdirAll(f, p) ==
    IF \E q \in Prefixes(p) : IsFile(f, q)
    THEN [fs |-> f, err |-> TRUE]
    ELSE [fs |-> [q \in DOMAIN f \cup Prefixes(p) |->
                     IF q \in DOMAIN f THEN f[q] ELSE DirEntry],
          err |-> FALSE]

(* mutant: a file that exists is an error, as with O_EXCL *)
CreateExclusive(f, p, e) ==
    IF ~DirExists(f, Parent(p)) \/ p \in DOMAIN f
    THEN [fs |-> f, err |-> TRUE]
    ELSE [fs |-> Put(f, p, e), err |-> FALSE]

(* os.Create / os.WriteFile: the directory must exist, the file is created  *)
(* or truncated; a directory of that name is an error                      *)
Create(f, p, e) ==
    IF ~DirExists(f, Parent(p)) \/ IsDir(f, p)
    THEN [fs |-> f, err |-> TRUE]
    ELSE [fs |-> Put(f, p, e), err |-> FALSE]

(* os.Open and io.ReadAll of a file: the bytes, or NoFile *)
ReadFile(f, p) == IF IsFile(f, p) THEN f[p].bytes ELSE NoFile

(* the bytes of file names in the order of their values *)
NameBytes ==
    <<
      " ", "!", "#", "$", "%", "&", "'", "(", ")", "*", "+", ",",
      "-", ".", "/", "0", "1", "2", "3", "4", "5", "6", "7", "8",
      "9", ":", ";", "<", "=", ">", "?", "@", "A", "B", "C", "D",
      "E", "F", "G", "H", "I", "J", "K", "L", "M", "N", "O", "P",
      "Q", "R", "S", "T", "U", "V", "W", "X", "Y", "Z", "[", "]",
      "^", "_", "a", "b", "c", "d", "e", "f", "g", "h", "i", "j",
      "k", "l", "m", "n", "o", "p", "q", "r", "s", "t", "u", "v",
      "w", "x", "y", "z", "{", "|", "}", "~"
    >>

Ord(b) == CHOOSE i \in 1..Len(NameBytes) : NameBytes[i] = b

RECURSIVE Less(_, _)
(* the order of strings: byte by byte, a prefix first *)
Less(a, b) ==
    IF a = <<>> THEN b # <<>>
    ELSE IF b = <<>> THEN FALSE
    ELSE IF a[1] = b[1] THEN Less(Tail(a), Tail(b))
    ELSE Ord(a[1]) < Ord(b[1])

RECURSIVE SortNames(_)
SortNames(S) ==
    IF S = {} THEN <<>>
    ELSE LET m == CHOOSE x \in S : \A y \in S \ {x} : Less(x, y)
         IN  <<m>> \o SortNames(S \ {m})

Children(f, d) == {p \in DOMAIN f : Len(p) = Len(d) + 1 /\ HasPrefix(p, d)}

(* fs.ReadDir: the names in directory d, sorted by name *)
ReadDir(f, d) == SortNames({p[Len(p)] : p \in Children(f, d)})

HasSuffix(s, t) == Len(s) >= Len(t) /\ SubSeq(s, Len(s) - Len(t) + 1, Len(s)) = t

RECURSIVE Filter(_, _)
Filter(names, ext) ==
    IF names = <<>> THEN <<>>
    ELSE (IF HasSuffix(names[1], ext) THEN <<names[1]>> ELSE <<>>) \o Filter(Tail(names), ext)

(* fs.Glob(os.DirFS(d), "*" + ext): no name without the directory *)
Glob(f, d, ext) == IF IsDir(f, d) THEN Filter(ReadDir(f, d), ext) ELSE <<>>

RECURSIVE WalkNames(_, _, _, _)
(* fs.WalkDir below directory d: the paths relative to d, a directory       *)
(* before its content, names sorted                                         *)
WalkNames(f, d, names, rel) ==
    IF names = <<>> THEN <<>>
    ELSE LET p == Append(d, names[1])
             r == Append(rel, names[1])
         IN  <<r>>
             \o (IF f[p].dir THEN WalkNames(f, p, ReadDir(f, p), r) ELSE <<>>)
             \o WalkNames(f, d, Tail(names), rel)

WalkDir(f, d, rel) == WalkNames(f, d, ReadDir(f, d), rel)

RECURSIVE CopyEntries(_, _, _, _, _)
(* os.CopyFS after the root: directories are made with MkdirAll, files are  *)
(* created exclusively, the first error stops the walk                      *)
CopyEntries(f, dest, from, root, rels) ==
    IF rels = <<>> THEN [fs |-> f, err |-> FALSE]
    ELSE LET src == from[root \o rels[1]]
             dst == dest \o rels[1]
         IN  IF src.dir
             THEN LET m == MkdirAll(f, dst) IN
                  IF m.err THEN [fs |-> f, err |-> TRUE]
                  ELSE CopyEntries(m.fs, dest, from, root, Tail(rels))
             ELSE IF dst \in DOMAIN f \/ ~DirExists(f, Parent(dst))
             THEN [fs |-> f, err |-> TRUE]
             ELSE CopyEntries(Put(f, dst, src), dest, from, root, Tail(rels))

(* os.CopyFS(dest, fsys) where fsys is the tree below root in from *)
CopyFS(f, dest, from, root) ==
    IF ~DirExists(from, root) THEN [fs |-> f, err |-> TRUE]
    ELSE LET m == MkdirAll(f, dest) IN
         IF m.err THEN [fs |-> f, err |-> TRUE]
         ELSE CopyEntries(m.fs, dest, from, root, WalkDir(from, root, <<>>))

(* assetsEFS: the embedded assets directory, a style sheet and a favicon *)
assetsEFS ==
    Put(Put(Put(EmptyFS, <<ASSETS_DIR>>, DirEntry),
            <<ASSETS_DIR, <<"f", "a", "v", "i", "c", "o", "n", ".", "i", "c", "o">>>>, FileEntry(<<"i", "c", "o">>)),
        <<ASSETS_DIR, <<"s", "t", "y", "l", "e", ".", "c", "s", "s">>>>, FileEntry(<<"c", "s", "s">>))

(* mutant: the old site directory is not deleted *)
resetStaticSiteKeepOld(f) ==
    LET m1 == MkdirAll(f, <<SITE_DIR, NameBlog>>)
        m2 == MkdirAll(m1.fs, <<SITE_DIR, NameTagged>>)
        c == CopyFS(m2.fs, <<SITE_DIR>>, assetsEFS, <<>>)
    IN  IF m1.err THEN [fs |-> m1.fs, err |-> "error creating docs/blog folder"]
        ELSE IF m2.err THEN [fs |-> m2.fs, err |-> "error creating docs/tagged folder"]
        ELSE IF c.err THEN [fs |-> c.fs, err |-> "error copying docs/assets folder"]
        ELSE [fs |-> c.fs, err |-> ""]

(* resetStaticSite *)
resetStaticSite(f) ==
    LET r == RemoveAll(f, <<SITE_DIR>>)
        m1 == MkdirAll(r, <<SITE_DIR, NameBlog>>)
        m2 == MkdirAll(m1.fs, <<SITE_DIR, NameTagged>>)
        c == CopyFS(m2.fs, <<SITE_DIR>>, assetsEFS, <<>>)
    IN  IF m1.err THEN [fs |-> m1.fs, err |-> "error creating docs/blog folder"]
        ELSE IF m2.err THEN [fs |-> m2.fs, err |-> "error creating docs/tagged folder"]
        ELSE IF c.err THEN [fs |-> c.fs, err |-> "error copying docs/assets folder"]
        ELSE [fs |-> c.fs, err |-> ""]

-----------------------------------------------------------------------------
(* Post.ContainsTag: slices.Contains compares the elements with == from the *)
(* first to the last                                                        *)

(* mutant: the comparison ignores the case of letters *)
EqualFold(s, t) == FoldKey(s) = FoldKey(t)

RECURSIVE ContainsFold(_, _)
ContainsFold(s, v) ==
    IF s = <<>> THEN FALSE
    ELSE IF EqualFold(s[1], v) THEN TRUE
    ELSE ContainsFold(Tail(s), v)

ContainsTagFold(p, tag) == ContainsFold(p.Tags, tag)

RECURSIVE Contains(_, _)
Contains(s, v) ==
    IF s = <<>> THEN FALSE
    ELSE IF s[1] = v THEN TRUE
    ELSE Contains(Tail(s), v)

ContainsTag(p, tag) == Contains(p.Tags, tag)

-----------------------------------------------------------------------------
(* The functions called on their own: the arguments are chosen, the         *)
(* function is called, the result is kept.                                  *)

PathAlphabet == {"a", "b", ".", "/"}

RECURSIVE SeqsUpTo(_, _)
(* the sequences over S of length at most n *)
SeqsUpTo(S, n) ==
    IF n = 0 THEN {<<>>}
    ELSE LET T == SeqsUpTo(S, n - 1) IN
         T \cup {Append(t, x) : t \in {u \in T : Len(u) = n - 1}, x \in S}

PathExamples == {<<"b", "b", "c", "/", "c", "b", "c", "/", "a", "b", "c", ".", "m", "d">>, <<"a", "b", "c", ".", "m", "d", ".", "j", "s", "o", "n">>}

RootNamePaths == SeqsUpTo(PathAlphabet, MaxPathLen) \cup PathExamples

TagNames == {<<"g", "o">>, <<"G", "o">>, <<"g">>, <<>>}

TagLists == SeqsUpTo(TagNames, MaxTags)

NodeTypes == {"Document", "Paragraph", "Text", "CodeBlock"}

Literals == {<<>>, <<"h", "e", "l", "l", "o", LF>>, <<"a", "<", "b">>, <<"x", QUOTE, LF, "~", LF>>}

Writers == {<<>>, <<"<p>">>, <<"<p>", "a", "</p>\n">>}

RootNameInit ==
    /\ fnIn \in RootNamePaths
    /\ fnOut = <<>>
    /\ fnPc = "call"

(* postRootName(path) *)
CallPostRootName ==
    /\ fnPc = "call"
    /\ fnOut' = postRootName(fnIn)
    /\ fnPc' = "ret"
    /\ UNCHANGED <<fnIn, codecVars, siteVars>>

ContainsTagInit ==
    /\ fnIn \in [post : {[ZeroPost EXCEPT !.Tags = ts] : ts \in TagLists}, tag : TagNames]
    /\ fnOut = FALSE
    /\ fnPc = "call"

(* p.ContainsTag(tag) *)
CallContainsTag ==
    /\ fnPc = "call"
    /\ fnOut' = ContainsTag(fnIn.post, fnIn.tag)
    /\ fnPc' = "ret"
    /\ UNCHANGED <<fnIn, codecVars, siteVars>>

HookInit ==
    /\ fnIn \in [w : Writers, node : {Node(t, l) : t \in NodeTypes, l \in Literals},
                 entering : BOOLEAN]
    /\ fnOut = [hook |-> [w |-> <<>>, status |-> "", handled |-> FALSE], rendered |-> <<>>]
    /\ fnPc = "call"

(* one visit of a node by the renderer: the hook, and RenderNode around it *)
CallRenderHook ==
    /\ fnPc = "call"
    /\ fnOut' = [hook |-> myRenderHook(fnIn.w, fnIn.node, fnIn.entering),
                 rendered |-> RenderNode(fnIn.w, fnIn.node, fnIn.entering)]
    /\ fnPc' = "ret"
    /\ UNCHANGED <<fnIn, codecVars, siteVars>>

-----------------------------------------------------------------------------
(* json.Unmarshal into a Tag and into a Config.  The json tags              *)
(* "special_links", "paths" and "tracking_id" cannot be spelled with the    *)
(* byte alphabet, so SpecialLinks, Paths and Analytics keep their zero      *)
(* values and are left out of the Config of the model.                      *)

TagSlug == <<"s", "l", "u", "g">>
TagURL == <<"u", "r", "l">>
TagPosts == <<"p", "o", "s", "t", "s">>
TagAnalytics == <<"g", "o", "o", "g", "l", "e", "_", "a", "n", "a", "l", "y", "t", "i", "c", "s">>

FirstErr(a, b) == IF a # "" THEN a ELSE b

DecodeTagMember(t, key, v) ==
    IF FoldKey(key) \in {TagSlug, TagLayout}
    THEN IF v.kind = "str"
         THEN [tag |-> [t EXCEPT ![IF FoldKey(key) = TagSlug THEN "Slug" ELSE "Layout"] = v.text],
               err |-> ""]
         ELSE IF IsNull(v) THEN [tag |-> t, err |-> ""]
         ELSE [tag |-> t, err |-> "type"]
    ELSE [tag |-> t, err |-> ""]

RECURSIVE DecodeTagMembers(_, _, _)
DecodeTagMembers(acc, obj, i) ==
    IF i > Len(obj.keys) THEN acc
    ELSE LET d == DecodeTagMember(acc.tag, obj.keys[i], obj.items[i]) IN
         DecodeTagMembers([tag |-> d.tag, err |-> FirstErr(acc.err, d.err)], obj, i + 1)

(* a value decoded into a Tag *)
DecodeTag(t, v) ==
    IF v.kind = "obj" THEN DecodeTagMembers([tag |-> t, err |-> ""], v, 1)
    ELSE IF IsNull(v) THEN [tag |-> t, err |-> ""]
    ELSE [tag |-> t, err |-> "type"]

UnmarshalTagParsed(r, t) ==
    IF ~r.ok THEN [tag |-> t, err |-> "syntax"] ELSE DecodeTag(t, r.val)

(* json.Unmarshal(metadata, &tag) *)
UnmarshalTag(data, t) == UnmarshalTagParsed(ParseJSON(data), t)

RECURSIVE FirstErrOf(_)
FirstErrOf(errs) ==
    IF errs = <<>> THEN "" ELSE FirstErr(Head(errs), FirstErrOf(Tail(errs)))

DecodeConfigMember(c, key, v) ==
    LET k == FoldKey(key) IN
    IF k \in {TagTitle, TagDescription, TagURL}
    THEN IF v.kind = "str"
         THEN [cfg |-> [c EXCEPT ![IF k = TagTitle THEN "Title"
                                   ELSE IF k = TagDescription THEN "Description"
                                   ELSE "URL"] = v.text],
               err |-> ""]
         ELSE IF IsNull(v) THEN [cfg |-> c, err |-> ""]
         ELSE [cfg |-> c, err |-> "type"]
    ELSE IF k = TagAnalytics
    THEN [cfg |-> c, err |-> IF v.kind = "obj" \/ IsNull(v) THEN "" ELSE "type"]
    ELSE IF k = TagTags
    THEN IF v.kind = "arr"
         THEN LET ds == [i \in 1..Len(v.items) |->
                            DecodeTag(IF i <= Len(c.Tags) THEN c.Tags[i] ELSE ZeroTag, v.items[i])]
              IN  [cfg |-> [c EXCEPT !.Tags = [i \in 1..Len(ds) |-> ds[i].tag]],
                   err |-> FirstErrOf([i \in 1..Len(ds) |-> ds[i].err])]
         ELSE IF IsNull(v) THEN [cfg |-> [c EXCEPT !.Tags = <<>>], err |-> ""]
         ELSE [cfg |-> c, err |-> "type"]
    ELSE IF k = TagPosts
    THEN IF v.kind = "arr"
         THEN LET ds == [i \in 1..Len(v.items) |->
                            DecodePost(IF i <= Len(c.Posts) THEN c.Posts[i] ELSE ZeroPost, v.items[i])]
              IN  [cfg |-> [c EXCEPT !.Posts = [i \in 1..Len(ds) |-> ds[i].post]],
                   err |-> FirstErrOf([i \in 1..Len(ds) |-> ds[i].err])]
         ELSE IF IsNull(v) THEN [cfg |-> [c EXCEPT !.Posts = <<>>], err |-> ""]
         ELSE [cfg |-> c, err |-> "type"]
    ELSE [cfg |-> c, err |-> ""]

RECURSIVE DecodeConfigMembers(_, _, _)
DecodeConfigMembers(acc, obj, i) ==
    IF i > Len(obj.keys) THEN acc
    ELSE LET d == DecodeConfigMember(acc.cfg, obj.keys[i], obj.items[i]) IN
         DecodeConfigMembers([cfg |-> d.cfg, err |-> FirstErr(acc.err, d.err)], obj, i + 1)

UnmarshalConfigParsed(r, c) ==
    IF ~r.ok THEN [cfg |-> c, err |-> "syntax"]
    ELSE IF r.val.kind = "obj" THEN DecodeConfigMembers([cfg |-> c, err |-> ""], r.val, 1)
    ELSE IF IsNull(r.val) THEN [cfg |-> c, err |-> ""]
    ELSE [cfg |-> c, err |-> "type"]

(* json.Unmarshal(cfgRaw, &cfg) *)
UnmarshalConfig(data, c) == UnmarshalConfigParsed(ParseJSON(data), c)

-----------------------------------------------------------------------------
(* Rendering of a page.  The templates are embedded files that are not part *)
(* of the source at hand: the output of a template is modelled by the name  *)
(* of the template and the data it is executed on.                          *)

(* the names of the files of the includes and of the layouts directory the *)
(* repository ships                                                        *)
ShippedIncludes == {"header.html", "footer.html", "head.html", "footer-post.html"}

LayoutDefault == <<"d", "e", "f", "a", "u", "l", "t">>
LayoutBlog == <<"b", "l", "o", "g">>
LayoutPost == <<"p", "o", "s", "t">>
LayoutTagged == <<"t", "a", "g", "g", "e", "d">>

ShippedLayouts == {LayoutDefault, LayoutBlog, LayoutPost, LayoutTagged}

(* the program as the repository builds it: every template is there and    *)
(* executes to its end                                                     *)
Shipped == [includes |-> ShippedIncludes, layouts |-> ShippedLayouts,
            failingIncludes |-> {}, failingLayouts |-> {}]

ShippedTemplates == embedded = Shipped

(* the includes and the layouts that parse, by name *)
includesEFS == embedded.includes
layoutsEFS == embedded.layouts

(* layoutTempl.Execute(&render, layoutContent) runs to the end of layout l *)
Executes(l) == l \notin embedded.failingLayouts

(* the panic of a method called through a nil pointer *)
NilDereference ==
    <<"panic: runtime error: invalid memory address or nil pointer dereference">>

HtmlExt == <<".", "h", "t", "m", "l">>
MdExt == <<".", "m", "d">>
JsonExt == <<".", "j", "s", "o", "n">>

NoFragment == [partial |-> "", Site |-> ZeroConfig, Post |-> ZeroPost, whole |-> TRUE]

(* includes.ExecuteTemplate(&b, k, includesContent): what b holds, whole    *)
(* when the template ran to its end; the error is not looked at            *)
Fragment(k, content) ==
    [partial |-> k, Site |-> content.Site, Post |-> content.Post,
     whole |-> k \notin embedded.failingIncludes]

(* the key of includesRender that the switch assigns for file k *)
IncludesKey(k) ==
    CASE k = "header.html" -> INCLUDES_HEADER
      [] k = "footer.html" -> INCLUDES_FOOTER
      [] k = "head.html" -> INCLUDES_HEAD
      [] k = "footer-post.html" -> INCLUDES_FOOTERPOST

(* mutant: a fragment that is in the map already is not executed again *)
ExecuteIncludesOnce(inc, content) ==
    LET cleared == [k \in DOMAIN inc \cup includesEFS |->
                       IF k \in includesEFS THEN NoFragment ELSE inc[k]]
        assigned == {IncludesKey(k) : k \in includesEFS}
    IN  [k \in DOMAIN cleared \cup assigned |->
            IF k \in assigned /\ k \notin DOMAIN inc
            THEN Fragment(CHOOSE n \in includesEFS : IncludesKey(n) = k, content)
            ELSE cleared[k]]

(* mutant: the map is rebuilt for the page with the symbolic names alone *)
ExecuteIncludesClosed(inc, content) ==
    [k \in {IncludesKey(n) : n \in includesEFS} |->
        Fragment(CHOOSE n \in includesEFS : IncludesKey(n) = k, content)]

(* the two loops over the includes: every file name is given the empty     *)
(* fragment, then every file name of the map is executed and its output    *)
(* stored under the key of the switch; the other keys of the map match no  *)
(* case, so the order of the iteration does not show in the result         *)
ExecuteIncludes(inc, content) ==
    LET cleared == [k \in DOMAIN inc \cup includesEFS |->
                       IF k \in includesEFS THEN NoFragment ELSE inc[k]]
        assigned == {IncludesKey(k) : k \in includesEFS}
    IN  [k \in DOMAIN cleared \cup assigned |->
            IF k \in assigned
            THEN Fragment(CHOOSE n \in includesEFS : IncludesKey(n) = k, content)
            ELSE cleared[k]]

(* filepath.Join of a directory and one name without separators *)
JoinPath(dir, name) == IF name = <<>> THEN dir ELSE Append(dir, name)

RECURSIVE PathBytes(_)
(* the path as the string handed to the functions *)
PathBytes(p) ==
    IF p = <<>> THEN <<>>
    ELSE IF Len(p) = 1 THEN p[1]
    ELSE p[1] \o <<"/">> \o PathBytes(Tail(p))

(* mutant: a page that cannot be created takes the site directory with it *)
renderPostHTMLRollback(f, inc, p, c, destDir) ==
    LET inc2 == ExecuteIncludes(inc, [Site |-> c, Post |-> p])
        layoutContent == [layout |-> p.Layout, post |-> p, tag |-> ZeroTag,
                          includes |-> inc2, site |-> c,
                          whole |-> Executes(p.Layout)]
        w == Create(f, Append(destDir, p.RootName \o HtmlExt), PageEntry(layoutContent))
    IN  IF p.Layout \notin layoutsEFS
        THEN [fs |-> f, includesRender |-> inc2,
              err |-> <<"error parsing layout template file ", Str(p.Layout)>>]
        ELSE IF w.err
        THEN [fs |-> RemoveAll(f, <<SITE_DIR>>), includesRender |-> inc2,
              err |-> <<"error creating HTML file for ", Str(p.RootName)>>]
        ELSE [fs |-> w.fs, includesRender |-> inc2, err |-> <<>>,
              path |-> Append(destDir, p.RootName \o HtmlExt)]

(* renderPostHTML(post, cfg, destDir) *)
renderPostHTML(f, inc, p, c, destDir) ==
    LET inc2 == ExecuteIncludes(inc, [Site |-> c, Post |-> p])
        layoutContent == [layout |-> p.Layout, post |-> p, tag |-> ZeroTag,
                          includes |-> inc2, site |-> c,
                          whole |-> Executes(p.Layout)]
        w == Create(f, Append(destDir, p.RootName \o HtmlExt), PageEntry(layoutContent))
    IN  IF p.Layout \notin layoutsEFS
        THEN [fs |-> f, includesRender |-> inc2,
              err |-> <<"error parsing layout template file ", Str(p.Layout)>>]
        ELSE IF w.err
        THEN [fs |-> f, includesRender |-> inc2,
              err |-> <<"error creating HTML file for ", Str(p.RootName)>>]
        ELSE [fs |-> w.fs, includesRender |-> inc2, err |-> <<>>,
              path |-> Append(destDir, p.RootName \o HtmlExt)]

(* mutant: the page of a tag is rendered with the layout the tag names *)
renderTagsHTMLOwnLayout(f, inc, t, c, destDir) ==
    LET tagAsPost == [ZeroPost EXCEPT !.Layout = t.Layout, !.RootName = t.Slug]
        inc2 == ExecuteIncludes(inc, [Site |-> c, Post |-> tagAsPost])
        layoutContent == [layout |-> t.Layout, post |-> tagAsPost, tag |-> t,
                          includes |-> inc2, site |-> c,
                          whole |-> Executes(t.Layout)]
        w == Create(f, Append(destDir, tagAsPost.RootName \o HtmlExt), PageEntry(layoutContent))
    IN  IF w.err
        THEN [fs |-> f, includesRender |-> inc2,
              err |-> <<"error creating HTML file for ", Str(tagAsPost.RootName)>>]
        ELSE [fs |-> w.fs, includesRender |-> inc2, err |-> <<>>,
              path |-> Append(destDir, tagAsPost.RootName \o HtmlExt)]

(* mutant: the page of a tag is created under the slug without extension *)
renderTagsHTMLNoExt(f, inc, t, c, destDir) ==
    LET tagAsPost == [ZeroPost EXCEPT !.Layout = LayoutTagged, !.RootName = t.Slug]
        inc2 == ExecuteIncludes(inc, [Site |-> c, Post |-> tagAsPost])
        layoutContent == [layout |-> LayoutTagged, post |-> tagAsPost, tag |-> t,
                          includes |-> inc2, site |-> c,
                          whole |-> Executes(LayoutTagged)]
        w == Create(f, Append(destDir, tagAsPost.RootName), PageEntry(layoutContent))
    IN  IF w.err
        THEN [fs |-> f, includesRender |-> inc2,
              err |-> <<"error creating HTML file for ", Str(tagAsPost.RootName)>>]
        ELSE [fs |-> w.fs, includesRender |-> inc2, err |-> <<>>,
              path |-> Append(destDir, tagAsPost.RootName)]

(* renderTagsHTML(tag, cfg, destDir): the layout is always "tagged" *)
renderTagsHTML(f, inc, t, c, destDir) ==
    LET tagAsPost == [ZeroPost EXCEPT !.Layout = LayoutTagged, !.RootName = t.Slug]
        inc2 == ExecuteIncludes(inc, [Site |-> c, Post |-> tagAsPost])
        layoutContent == [layout |-> LayoutTagged, post |-> tagAsPost, tag |-> t,
                          includes |-> inc2, site |-> c,
                          whole |-> Executes(LayoutTagged)]
        w == Create(f, Append(destDir, tagAsPost.RootName \o HtmlExt), PageEntry(layoutContent))
    IN  IF LayoutTagged \notin layoutsEFS
        THEN [fs |-> f, includesRender |-> inc2, err |-> NilDereference]
        ELSE IF w.err
        THEN [fs |-> f, includesRender |-> inc2,
              err |-> <<"error creating HTML file for ", Str(tagAsPost.RootName)>>]
        ELSE [fs |-> w.fs, includesRender |-> inc2, err |-> <<>>,
              path |-> Append(destDir, tagAsPost.RootName \o HtmlExt)]

(* the error parsePost returns, as the parts of its message *)
ParsePostError(kind, path) ==
    IF kind = "read" THEN <<"error reading post: ", Str(PathBytes(path))>>
    ELSE <<"error unmarshaling metadata">>

postsDir == <<MARKDOWN_DIR, NamePosts>>
tagsDir == <<MARKDOWN_DIR, NameTags>>

(* mutant: a file that does not parse is skipped *)
discoverPostSkipInvalid(acc, path, f) ==
    LET r == parsePost(PathBytes(path), ReadFile(f, path)) IN
    IF r.err # "" THEN [posts |-> acc, err |-> <<>>]
    ELSE [posts |-> Append(acc, r.post), err |-> <<>>]

(* one iteration of the loop that parses the posts *)
discoverPost(acc, path, f) ==
    LET r == parsePost(PathBytes(path), ReadFile(f, path)) IN
    IF r.err # ""
    THEN [posts |-> acc, err |-> <<"error rendering posts">> \o ParsePostError(r.err, path)]
    ELSE [posts |-> Append(acc, r.post), err |-> <<>>]

(* mutant: a tag file that does not decode is skipped *)
discoverTagSkipInvalid(acc, path, f) ==
    LET metadata == ReadFile(f, path)
        u == UnmarshalTag(metadata, ZeroTag)
    IN  IF metadata = NoFile \/ u.err # ""
        THEN [tags |-> acc, err |-> <<>>]
        ELSE [tags |-> Append(acc, u.tag), err |-> <<>>]

(* the error read(path) returns: the error of os.Open or io.ReadAll, an     *)
(* *fs.PathError whose text names the operation and the path               *)
ReadError(f, path) ==
    IF IsDir(f, path)
    THEN <<"error reading file", "read ", Str(PathBytes(path)), "is a directory">>
    ELSE <<"error opening file", "open ", Str(PathBytes(path)), "no such file or directory">>

(* one iteration of the loop that reads the tags *)
discoverTag(acc, path, f) ==
    LET metadata == ReadFile(f, path)
        u == UnmarshalTag(metadata, ZeroTag)
    IN  IF metadata = NoFile
        THEN [tags |-> acc, err |-> <<"error reading tags metadata">> \o ReadError(f, path)]
        ELSE IF u.err # ""
        THEN [tags |-> acc, err |-> <<"error unmarshaling tags metadata">>]
        ELSE [tags |-> Append(acc, u.tag), err |-> <<>>]

-----------------------------------------------------------------------------
(* resetStaticSite called on its own, twice in a row, on a working          *)
(* directory that holds the output of earlier builds                        *)

NameOld == <<"o", "l", "d", ".", "h", "t", "m", "l">>
NameStyle == <<"s", "t", "y", "l", "e", ".", "c", "s", "s">>

(* what an earlier build or the user may have left behind *)
StaleItems ==
    {[path |-> <<SITE_DIR, NameOld>>, entry |-> FileEntry(<<"o", "l", "d">>)],
     [path |-> <<SITE_DIR, NameBlog, <<"a", ".", "h", "t", "m", "l">>>>, entry |-> FileEntry(<<"o", "l", "d">>)],
     [path |-> <<SITE_DIR, ASSETS_DIR, NameStyle>>, entry |-> FileEntry(<<"s", "t", "a", "l", "e">>)],
     [path |-> <<SITE_DIR, ASSETS_DIR, <<"o", "l", "d", ".", "c", "s", "s">>>>, entry |-> FileEntry(<<"o", "l", "d">>)],
     [path |-> <<SITE_DIR, NameTagged, <<"g", "o">>, <<"g", "o", ".", "h", "t", "m", "l">>>>, entry |-> FileEntry(<<"o", "l", "d">>)],
     [path |-> <<SITE_DIR, <<"i", "m", "a", "g", "e", "s">>>>, entry |-> DirEntry],
     [path |-> <<MARKDOWN_DIR, NamePosts, <<"a", ".", "m", "d">>>>, entry |-> FileEntry(<<"p", "o", "s", "t">>)]}

RECURSIVE TreeOf(_)
(* the tree that holds the items and the directories above them *)
TreeOf(items) ==
    IF items = {} THEN EmptyFS
    ELSE LET it == CHOOSE x \in items : TRUE IN
         Put(MkdirAll(TreeOf(items \ {it}), Parent(it.path)).fs, it.path, it.entry)

(* the trees before the first call; the site directory may be a file *)
PriorTrees ==
    {TreeOf(items) : items \in SUBSET StaleItems}
    \cup {Put(EmptyFS, <<SITE_DIR>>, FileEntry(<<"o", "l", "d">>))}

ResetStart ==
    /\ fs \in PriorTrees
    /\ resets = 0
    /\ rerr = ""
    /\ prior = <<>>

(* resetStaticSite() *)
ResetStaticSite ==
    /\ resets < MaxResets
    /\ LET r == resetStaticSite(fs) IN
       /\ fs' = r.fs
       /\ rerr' = r.err
    /\ resets' = resets + 1
    /\ prior' = Append(prior, fs)
    /\ UNCHANGED <<codecVars, fnVars, buildVars, embedded, uiVars>>

-----------------------------------------------------------------------------
(* The build.  The user writes the sources, then generateStaticSite runs,   *)
(* one stage and one loop iteration at a time.                              *)

PostNames == {<<"a", ".", "m", "d">>, <<"a", ".", "b", ".", "m", "d">>, <<"b", ".", "m", "d">>}
TagFileNames == {<<"g", "o", ".", "j", "s", "o", "n">>, <<"x", ".", "j", "s", "o", "n">>}

PostGood == addFrontmatter(<<"{", QUOTE, "t", "i", "t", "l", "e", QUOTE, ":", QUOTE, "A", QUOTE, ",", QUOTE, "t", "a", "g", "s", QUOTE, ":", "[", QUOTE, "g", "o", QUOTE, "]", "}">>) \o <<"B", "o", "d", "y", LF>>
PostBad == addFrontmatter(LineOpen) \o <<"B", "o", "d", "y", LF>>
PostMistyped == addFrontmatter(LineMistyped) \o <<"B", "o", "d", "y", LF>>
(* in place of a document: a directory under the name of the file *)
Directory == <<"<directory>">>

(* a post whose metadata declares a layout of its own *)
PostLaidOut == addFrontmatter(<<"{", QUOTE, "t", "i", "t", "l", "e", QUOTE, ":", QUOTE, "B", QUOTE, ",", QUOTE, "l", "a", "y", "o", "u", "t", QUOTE, ":", QUOTE, "b", "l", "o", "g", QUOTE, "}">>) \o <<"B", "o", "d", "y", LF>>
PostDocs(name) ==
    IF name = <<"b", ".", "m", "d">> THEN {PostGood, PostMistyped}
    ELSE IF name = <<"a", ".", "b", ".", "m", "d">> THEN {PostLaidOut, PostBad}
    ELSE {PostGood, Directory}

TagGood == <<"{", QUOTE, "s", "l", "u", "g", QUOTE, ":", QUOTE, "g", "o", QUOTE, "}">>
TagBad == <<"{", QUOTE, "s", "l", "u", "g", QUOTE, ":">>
(* a tag of the same slug whose metadata declares a layout of its own *)
TagLaidOut == <<"{", QUOTE, "s", "l", "u", "g", QUOTE, ":", QUOTE, "g", "o", QUOTE, ",", QUOTE, "l", "a", "y", "o", "u", "t", QUOTE, ":", QUOTE, "p", "o", "s", "t", QUOTE, "}">>
TagOther == <<"{", QUOTE, "s", "l", "u", "g", QUOTE, ":", QUOTE, "x", QUOTE, "}">>
TagDocs(name) ==
    IF name = <<"g", "o", ".", "j", "s", "o", "n">> THEN {TagGood, TagBad} ELSE {TagLaidOut, TagOther, Directory}

ConfigGood == <<"{", QUOTE, "t", "i", "t", "l", "e", QUOTE, ":", QUOTE, "A", QUOTE, "}">>
ConfigBad == <<"{", QUOTE, "t", "i", "t", "l", "e", QUOTE, ":">>
ConfigWithPosts == <<"{", QUOTE, "t", "i", "t", "l", "e", QUOTE, ":", QUOTE, "A", QUOTE, ",", QUOTE, "p", "o", "s", "t", "s", QUOTE, ":", "[", "{", QUOTE, "t", "i", "t", "l", "e", QUOTE, ":", QUOTE, "B", QUOTE, "}", "]", "}">>
ConfigDocs == {ConfigGood, ConfigBad, ConfigWithPosts}

SpecialGood == addFrontmatter(<<"{", QUOTE, "t", "i", "t", "l", "e", QUOTE, ":", QUOTE, "A", QUOTE, ",", QUOTE, "l", "a", "y", "o", "u", "t", QUOTE, ":", QUOTE, "p", "o", "s", "t", QUOTE, "}">>) \o <<"B", "o", "d", "y", LF>>

(* a file written below the working directory, its directories made first *)
WriteFile(f, p, b) == Put(MkdirAll(f, Parent(p)).fs, p, FileEntry(b))

(* a document written, or a directory made, under path p *)
WriteDoc(f, p, doc) == IF doc = Directory THEN MkdirAll(f, p).fs ELSE WriteFile(f, p, doc)

(* the names of the pages of the special files *)
INDEX_FILE_HTML == postRootName(INDEX_FILE) \o HtmlExt
BLOG_FILE_HTML == postRootName(BLOG_FILE) \o HtmlExt

Editing == bpc = "idle" /\ builds = 0

Frame == UNCHANGED <<codecVars, fnVars, resetVars, embedded, uiVars>>

(* the user writes a post into markdown/posts *)
UserWritePost ==
    /\ Editing
    /\ \E name \in PostNames :
          \E doc \in PostDocs(name) :
              /\ Append(postsDir, name) \notin DOMAIN fs
              /\ fs' = WriteDoc(fs, Append(postsDir, name), doc)
    /\ UNCHANGED buildVars /\ Frame

(* the user writes the metadata of a tag into markdown/tags *)
UserWriteTag ==
    /\ Editing
    /\ \E name \in TagFileNames :
          \E doc \in TagDocs(name) :
              /\ Append(tagsDir, name) \notin DOMAIN fs
              /\ fs' = WriteDoc(fs, Append(tagsDir, name), doc)
    /\ UNCHANGED buildVars /\ Frame

(* the user writes config.json *)
UserWriteConfig ==
    /\ Editing
    /\ <<CONFIG_FILE>> \notin DOMAIN fs
    /\ \E doc \in ConfigDocs : fs' = WriteFile(fs, <<CONFIG_FILE>>, doc)
    /\ UNCHANGED buildVars /\ Frame

(* the user writes the special pages: index.md, then blog.md *)
UserWriteSpecial ==
    /\ Editing
    /\ \E k \in 1..Len(specialFiles) :
          /\ <<MARKDOWN_DIR, specialFiles[k]>> \notin DOMAIN fs
          /\ \A j \in 1..(k - 1) : <<MARKDOWN_DIR, specialFiles[j]>> \in DOMAIN fs
          /\ fs' = WriteFile(fs, <<MARKDOWN_DIR, specialFiles[k]>>, SpecialGood)
    /\ UNCHANGED buildVars /\ Frame

(* the user fills markdown/assets: nothing, a file of its own, a file under *)
(* the name of a file of the embedded assets, a directory under the name of *)
(* a page, or a file under the name of the directory of a tag               *)
UserMakeAssets ==
    /\ Editing
    /\ <<MARKDOWN_DIR, ASSETS_DIR>> \notin DOMAIN fs
    /\ \E kind \in {"empty", "own", "clash", "pagedir", "tagfile"} :
          fs' = CASE kind = "empty" -> MkdirAll(fs, <<MARKDOWN_DIR, ASSETS_DIR>>).fs
                  [] kind = "own" ->
                       WriteFile(fs, <<MARKDOWN_DIR, ASSETS_DIR, <<"i", "m", "a", "g", "e", "s">>, <<"a", ".", "i", "c", "o">>>>, <<"i", "c", "o">>)
                  [] kind = "clash" ->
                       WriteFile(fs, <<MARKDOWN_DIR, ASSETS_DIR, ASSETS_DIR, NameStyle>>, <<"o", "w", "n">>)
                  [] kind = "pagedir" ->
                       MkdirAll(fs, <<MARKDOWN_DIR, ASSETS_DIR, BLOG_FILE_HTML>>).fs
                  [] kind = "tagfile" ->
                       WriteFile(fs, <<MARKDOWN_DIR, ASSETS_DIR, NameTagged, <<"g", "o">>>>, <<"o", "w", "n">>)
    /\ UNCHANGED buildVars /\ Frame

(* an earlier run has left a site directory behind *)
UserLeaveOutput ==
    /\ Editing
    /\ <<SITE_DIR>> \notin DOMAIN fs
    /\ fs' = WriteFile(WriteFile(fs, <<SITE_DIR, NameOld>>, <<"o", "l", "d">>),
                       <<SITE_DIR, NameBlog, <<"a", ".", "h", "t", "m", "l">>>>, <<"o", "l", "d">>)
    /\ UNCHANGED buildVars /\ Frame

Fail(e) == bpc' = "done" /\ berr' = e

(* the goroutine panics with e: the call does not return *)
Panic(e) == bpc' = "panic" /\ berr' = e

(* the running call takes a step of one stage *)
Step(stage) == trace' = Append(trace, stage)

(* resetStaticSite has returned r *)
ResetReturned(r) ==
    /\ fs' = r.fs
    /\ IF r.err # ""
       THEN Fail(<<"error resetting site directory", r.err>>)
       ELSE bpc' = "assets" /\ berr' = <<>>

(* generateStaticSite is called: resetStaticSite *)
BuildReset ==
    /\ bpc \in {"idle", "done"}
    /\ uipc = "off" \/ (uipc = "generate" /\ bpc = "idle")
    /\ builds < MaxBuilds
    /\ builds' = builds + 1
    /\ cfg' = ZeroConfig /\ posts' = <<>> /\ tags' = <<>> /\ queue' = <<>>
    /\ ResetReturned(resetStaticSite(fs))
    /\ trace' = <<"Reset">> /\ written' = <<>>
    /\ UNCHANGED includesRender /\ Frame

(* os.CopyFS has returned c *)
AssetsCopied(c) ==
    /\ fs' = c.fs
    /\ IF c.err
       THEN Fail(<<"error copying markdown/assets folder">>)
       ELSE bpc' = "config" /\ berr' = berr

(* markdown/assets is copied into the site directory *)
BuildCopyAssets ==
    /\ bpc = "assets"
    /\ AssetsCopied(CopyFS(fs, <<SITE_DIR>>, fs, <<MARKDOWN_DIR, ASSETS_DIR>>))
    /\ Step("CopyAssets")
    /\ UNCHANGED <<cfg, posts, tags, queue, includesRender, builds, written>> /\ Frame

(* config.json has been read as cfgRaw and decoded as u *)
ConfigLoaded(cfgRaw, u) ==
    IF cfgRaw = NoFile
    THEN Fail(<<"error opening config file">>) /\ UNCHANGED <<cfg, queue>>
    ELSE IF u.err # ""
    THEN Fail(<<"error unmarshaling config file">>) /\ cfg' = u.cfg /\ UNCHANGED queue
    ELSE /\ cfg' = u.cfg
         /\ queue' = Glob(fs, postsDir, MdExt)
         /\ bpc' = "posts" /\ berr' = berr

(* config.json is read and decoded; the post files are listed *)
BuildLoadConfig ==
    /\ bpc = "config"
    /\ ConfigLoaded(ReadFile(fs, <<CONFIG_FILE>>),
                    UnmarshalConfig(ReadFile(fs, <<CONFIG_FILE>>), cfg))
    /\ Step("LoadConfig")
    /\ UNCHANGED <<fs, posts, tags, includesRender, builds, written>> /\ Frame

(* the iteration over a post file has returned d *)
PostDiscovered(d) ==
    IF d.err # <<>>
    THEN Fail(d.err) /\ UNCHANGED <<posts, queue>>
    ELSE posts' = d.posts /\ queue' = Tail(queue) /\ UNCHANGED <<bpc, berr>>

(* one post file is parsed *)
BuildDiscoverPost ==
    /\ bpc = "posts" /\ queue # <<>>
    /\ PostDiscovered(discoverPost(posts, Append(postsDir, Head(queue)), fs))
    /\ Step("DiscoverPosts")
    /\ UNCHANGED <<fs, cfg, tags, includesRender, builds, written>> /\ Frame

(* mutant: the special pages are rendered before the tags are discovered *)
BuildPostsDoneSkipTags ==
    /\ bpc = "posts" /\ queue = <<>>
    /\ cfg' = [cfg EXCEPT !.Posts = posts]
    /\ queue' = specialFiles
    /\ bpc' = "special"
    /\ Step("DiscoverPosts")
    /\ UNCHANGED <<fs, posts, tags, berr, includesRender, builds, written>> /\ Frame

(* all post files are parsed: cfg.Posts = posts; the tag files are listed *)
BuildPostsDone ==
    /\ bpc = "posts" /\ queue = <<>>
    /\ cfg' = [cfg EXCEPT !.Posts = posts]
    /\ queue' = Glob(fs, tagsDir, JsonExt)
    /\ bpc' = "tags"
    /\ Step("DiscoverPosts")
    /\ UNCHANGED <<fs, posts, tags, berr, includesRender, builds, written>> /\ Frame

(* the iteration over a tag file has returned d *)
TagDiscovered(d) ==
    IF d.err # <<>>
    THEN Fail(d.err) /\ UNCHANGED <<tags, queue>>
    ELSE tags' = d.tags /\ queue' = Tail(queue) /\ UNCHANGED <<bpc, berr>>

(* one tag file is read and decoded *)
BuildDiscoverTag ==
    /\ bpc = "tags" /\ queue # <<>>
    /\ TagDiscovered(discoverTag(tags, Append(tagsDir, Head(queue)), fs))
    /\ Step("DiscoverTags")
    /\ UNCHANGED <<fs, cfg, posts, includesRender, builds, written>> /\ Frame

(* all tag files are read: cfg.Tags = tags *)
BuildTagsDone ==
    /\ bpc = "tags" /\ queue = <<>>
    /\ cfg' = [cfg EXCEPT !.Tags = tags]
    /\ queue' = specialFiles
    /\ bpc' = "special"
    /\ Step("DiscoverTags")
    /\ UNCHANGED <<fs, posts, tags, berr, includesRender, builds, written>> /\ Frame

(* the layout the switch gives to a special page *)
SpecialLayout(name) == IF name = INDEX_FILE THEN LayoutDefault ELSE LayoutBlog

(* renderPostHTML or renderTagsHTML has returned h *)
Rendered(h, failure) ==
    /\ fs' = h.fs
    /\ includesRender' = h.includesRender
    /\ IF h.err = NilDereference
       THEN Panic(h.err) /\ UNCHANGED <<queue, written>>
       ELSE IF h.err # <<>>
       THEN Fail(<<failure>> \o h.err) /\ UNCHANGED <<queue, written>>
       ELSE /\ queue' = Tail(queue)
            /\ written' = Append(written, [path |-> h.path, page |-> h.fs[h.path].page])
            /\ UNCHANGED <<bpc, berr>>

(* mutant: the page keeps the layout its metadata declares *)
RenderParsedDeclared(r, path, layout, destDir, parseFailure, renderFailure) ==
    IF r.err # ""
    THEN /\ Fail(<<parseFailure, Str(r.post.RootName)>> \o ParsePostError(r.err, path))
         /\ UNCHANGED <<fs, includesRender, queue, written>>
    ELSE Rendered(renderPostHTML(fs, includesRender, r.post, cfg, destDir),
                  renderFailure)

(* parsePost(path) has returned r: the page is given its layout and         *)
(* rendered into destDir                                                    *)
RenderParsed(r, path, layout, destDir, parseFailure, renderFailure) ==
    IF r.err # ""
    THEN /\ Fail(<<parseFailure, Str(r.post.RootName)>> \o ParsePostError(r.err, path))
         /\ UNCHANGED <<fs, includesRender, queue, written>>
    ELSE Rendered(renderPostHTML(fs, includesRender, [r.post EXCEPT !.Layout = layout],
                                 cfg, destDir),
                  renderFailure)

(* one special page is parsed and rendered into the site directory *)
BuildRenderSpecial ==
    /\ bpc = "special" /\ queue # <<>>
    /\ RenderParsed(parsePost(PathBytes(<<MARKDOWN_DIR, Head(queue)>>),
                              ReadFile(fs, <<MARKDOWN_DIR, Head(queue)>>)),
                    <<MARKDOWN_DIR, Head(queue)>>,
                    SpecialLayout(Head(queue)),
                    <<SITE_DIR>>,
                    "error parsing special file ", "error rendering special pages")
    /\ Step("RenderSpecialPages")
    /\ UNCHANGED <<cfg, posts, tags, builds>> /\ Frame

(* the special pages are rendered; the post files are listed again *)
BuildSpecialDone ==
    /\ bpc = "special" /\ queue = <<>>
    /\ queue' = Glob(fs, postsDir, MdExt)
    /\ bpc' = "render"
    /\ Step("RenderSpecialPages")
    /\ UNCHANGED <<fs, cfg, posts, tags, berr, includesRender, builds, written>> /\ Frame

(* one post is parsed again and rendered into docs/blog *)
BuildRenderPost ==
    /\ bpc = "render" /\ queue # <<>>
    /\ RenderParsed(parsePost(PathBytes(Append(postsDir, Head(queue))),
                              ReadFile(fs, Append(postsDir, Head(queue)))),
                    Append(postsDir, Head(queue)),
                    LayoutPost,
                    <<SITE_DIR, NameBlog>>,
                    "error parsing blog post ", "error rendering posts")
    /\ Step("RenderPosts")
    /\ UNCHANGED <<cfg, posts, tags, builds>> /\ Frame

(* the posts are rendered; the loop over cfg.Tags starts *)
BuildRenderDone ==
    /\ bpc = "render" /\ queue = <<>>
    /\ queue' = cfg.Tags
    /\ bpc' = "rendertags"
    /\ Step("RenderPosts")
    /\ UNCHANGED <<fs, cfg, posts, tags, berr, includesRender, builds, written>> /\ Frame

(* os.MkdirAll of the directory of tag t has returned m *)
TagDirMade(m, t, destDir) ==
    IF m.err
    THEN /\ Fail(<<"error creating docs/tagged/", Str(t.Slug), " folder">>)
         /\ UNCHANGED <<fs, includesRender, queue, written>>
    ELSE Rendered(renderTagsHTML(m.fs, includesRender, t, cfg, destDir), "error rendering tags")

(* the directory of one tag is made and its page rendered *)
BuildRenderTag ==
    /\ bpc = "rendertags" /\ queue # <<>>
    /\ TagDirMade(MkdirAll(fs, JoinPath(<<SITE_DIR, NameTagged>>, Head(queue).Slug)),
                  Head(queue),
                  JoinPath(<<SITE_DIR, NameTagged>>, Head(queue).Slug))
    /\ Step("RenderTagPages")
    /\ UNCHANGED <<cfg, posts, tags, builds>> /\ Frame

(* every tag page is rendered: generateStaticSite returns nil *)
BuildReturn ==
    /\ bpc = "rendertags" /\ queue = <<>>
    /\ bpc' = "done"
    /\ berr' = <<>>
    /\ trace' = trace \o <<"RenderTagPages", "Done">>
    /\ UNCHANGED <<fs, cfg, posts, tags, queue, includesRender, builds, written>> /\ Frame

-----------------------------------------------------------------------------
(* The specifications.  Each one starts the variables of its own part and   *)
(* leaves the other parts at rest.                                          *)

FnRest == fnIn = <<>> /\ fnOut = <<>> /\ fnPc = "off"

ResetRest == resets = 0 /\ rerr = "" /\ prior = <<>>

(* the gocui.Gui before its first layout: no view, no current view *)
NoGui == [views |-> {}, side |-> <<>>, cy |-> 0, current |-> "", main |-> <<>>,
          msg |-> <<>>, input1 |-> <<>>, input2 |-> <<>>, frame1 |-> TRUE, frame2 |-> TRUE]

(* the process was started with a command: interactive is never called *)
UIOff == gui = NoGui /\ active = 0 /\ uipc = "off" /\ rows = 0 /\ execs = 0

BuildStart ==
    /\ bpc = "idle"
    /\ cfg = ZeroConfig
    /\ posts = <<>>
    /\ tags = <<>>
    /\ queue = <<>>
    /\ berr = <<>>
    /\ includesRender = NoIncludes
    /\ builds = 0
    /\ trace = <<>>
    /\ written = <<>>

CodecInit == CodecStart /\ FnRest /\ fs = EmptyFS /\ ResetRest /\ BuildStart /\ ShippedTemplates /\ UIOff

CodecNext == UserWrite \/ AddFrontmatter \/ ReadPostOpen \/ ReadPostScan \/ ParsePostReturn

SpecCodec == CodecInit /\ [][CodecNext]_vars

RootNameNext == CallPostRootName

InitRootName == CodecStart /\ RootNameInit /\ fs = EmptyFS /\ ResetRest /\ BuildStart /\ ShippedTemplates /\ UIOff

SpecRootName == InitRootName /\ [][RootNameNext]_vars

ContainsTagNext == CallContainsTag

InitContainsTag == CodecStart /\ ContainsTagInit /\ fs = EmptyFS /\ ResetRest /\ BuildStart /\ ShippedTemplates /\ UIOff

SpecContainsTag == InitContainsTag /\ [][ContainsTagNext]_vars

HookNext == CallRenderHook

InitHook == CodecStart /\ HookInit /\ fs = EmptyFS /\ ResetRest /\ BuildStart /\ ShippedTemplates /\ UIOff

SpecHook == InitHook /\ [][HookNext]_vars

ResetInit == CodecStart /\ FnRest /\ ResetStart /\ BuildStart /\ ShippedTemplates /\ UIOff

ResetNext == ResetStaticSite

SpecReset == ResetInit /\ [][ResetNext]_vars

Init == CodecStart /\ FnRest /\ fs = EmptyFS /\ ResetRest /\ BuildStart /\ ShippedTemplates /\ UIOff

Next ==
    \/ UserWritePost
    \/ UserWriteTag
    \/ UserWriteConfig
    \/ UserWriteSpecial
    \/ UserMakeAssets
    \/ UserLeaveOutput
    \/ BuildReset
    \/ BuildCopyAssets
    \/ BuildLoadConfig
    \/ BuildDiscoverPost
    \/ BuildPostsDone
    \/ BuildDiscoverTag
    \/ BuildTagsDone
    \/ BuildRenderSpecial
    \/ BuildSpecialDone
    \/ BuildRenderPost
    \/ BuildRenderDone
    \/ BuildRenderTag
    \/ BuildReturn

Spec == Init /\ [][Next]_vars

-----------------------------------------------------------------------------
(* Properties of postRootName, ContainsTag and the render hook *)

(* C6: root-name derivation.  For every path, postRootName returns the last *)
(* path component with its extension(s) stripped and ignores the            *)
(* directories: the path is a directory part that is empty or ends with     *)
(* the separator, then the result, which holds no separator and no dot,     *)
(* then an extension part that holds no separator and is empty or starts    *)
(* with a dot.  "bbc/cbc/abc.md" and "abc.md.json" both give "abc".         *)
C6_RootName ==
    fnPc = "ret" =>
       /\ \E d \in 0..Len(fnIn) :
             LET e == d + Len(fnOut) IN
             /\ e <= Len(fnIn)
             /\ SubSeq(fnIn, d + 1, e) = fnOut
             /\ d = 0 \/ fnIn[d] = "/"
             /\ \A i \in (d + 1)..Len(fnIn) : fnIn[i] # "/"
             /\ \A i \in (d + 1)..e : fnIn[i] # "."
             /\ e = Len(fnIn) \/ fnIn[e + 1] = "."
       /\ fnIn \in PathExamples => fnOut = <<"a", "b", "c">>

C6_Witness ==
    /\ fnPc = "ret"
    /\ fnIn = <<"a", "b", "c", ".", "m", "d", ".", "j", "s", "o", "n">>
    /\ fnOut = <<"a", "b", "c">>

(* C7: tag membership.  ContainsTag(t) is true if and only if t is an       *)
(* exact, case-sensitive element of the Tags of the post; it is false for   *)
(* every t when Tags is empty.                                              *)
C7_ContainsTag ==
    fnPc = "ret" =>
       /\ fnOut = (\E i \in 1..Len(fnIn.post.Tags) : fnIn.post.Tags[i] = fnIn.tag)
       /\ fnIn.post.Tags = <<>> => fnOut = FALSE

C7_Witness ==
    /\ fnPc = "ret"
    /\ fnIn.tag = <<"g", "o">>
    /\ fnIn.post.Tags = <<<<"g">>, <<"G", "o">>>>
    /\ fnOut = FALSE

(* C8: code-block rendering.  For a code-block node the hook writes, on     *)
(* entering and only then, the opening tags, the literal text of the block  *)
(* and the closing tags, and reports the node as handled on both visits,    *)
(* so that the renderer adds nothing of its own; for every other node the   *)
(* hook writes nothing and reports it as not handled.                       *)
C8_CodeBlockHook ==
    fnPc = "ret" =>
       IF fnIn.node.Type = "CodeBlock"
       THEN /\ fnOut.hook.handled
            /\ Join(fnOut.hook.w) =
                  (IF fnIn.entering
                   THEN Join(fnIn.w) \o "<div class='highlight'><pre class='highlight'><code>"
                        \o Str(fnIn.node.Literal) \o "</code></pre></div>"
                   ELSE Join(fnIn.w))
            /\ ~fnIn.entering => fnOut.hook.w = fnIn.w
            /\ fnOut.rendered = fnOut.hook.w
       ELSE /\ ~fnOut.hook.handled
            /\ fnOut.hook.w = fnIn.w

C8_Witness ==
    /\ fnPc = "ret"
    /\ fnIn.node = Node("CodeBlock", <<"h", "e", "l", "l", "o", LF>>)
    /\ fnIn.entering
    /\ Join(fnOut.rendered) =
          Join(fnIn.w) \o "<div class='highlight'><pre class='highlight'><code>hello\n</code></pre></div>"

-----------------------------------------------------------------------------
(* Properties of the build *)

(* the names of the post files the build lists *)
PostFiles(f) == {Glob(f, postsDir, MdExt)[i] : i \in 1..Len(Glob(f, postsDir, MdExt))}

(* the post files whose metadata json.Unmarshal rejects *)
InvalidPostFiles(f) ==
    {name \in PostFiles(f) :
        parsePost(PathBytes(Append(postsDir, name)), ReadFile(f, Append(postsDir, name))).err
           = "unmarshal"}

(* the pages in the working directory *)
Pages(f) == {p \in DOMAIN f : f[p].page # NoPage}

(* the posts config.json itself declares *)
ConfigPosts(f) ==
    IF IsFile(f, <<CONFIG_FILE>>)
    THEN UnmarshalConfig(ReadFile(f, <<CONFIG_FILE>>), ZeroConfig).cfg.Posts
    ELSE <<>>

OutputTree(f) == [p \in {q \in DOMAIN f : HasPrefix(q, <<SITE_DIR>>)} |-> f[p]]

(* the site directory of a fresh site: blog, tagged and the embedded assets *)
ResetTree ==
    [p \in {<<SITE_DIR>>, <<SITE_DIR, NameBlog>>, <<SITE_DIR, NameTagged>>}
           \cup {<<SITE_DIR>> \o q : q \in DOMAIN assetsEFS} |->
        IF Len(p) > 1 /\ Tail(p) \in DOMAIN assetsEFS THEN assetsEFS[Tail(p)] ELSE DirEntry]

(* C10: idempotent reset.  Whatever the site directory held, after          *)
(* resetStaticSite it holds exactly blog, tagged and the copied assets, and *)
(* a second call in a row succeeds and leaves the working directory as the  *)
(* first call left it.                                                      *)
C10_IdempotentReset ==
    resets >= 1 =>
       /\ rerr = ""
       /\ OutputTree(fs) = ResetTree
       /\ resets >= 2 => fs = prior[resets]

C10_Witness ==
    /\ resets = 2
    /\ rerr = ""
    /\ <<SITE_DIR, NameOld>> \in DOMAIN prior[1]
    /\ <<SITE_DIR, ASSETS_DIR, NameStyle>> \in DOMAIN prior[1]
    /\ prior[1][<<SITE_DIR, ASSETS_DIR, NameStyle>>] # fs[<<SITE_DIR, ASSETS_DIR, NameStyle>>]
    /\ fs = prior[2]

-----------------------------------------------------------------------------
(* The stages of generateStaticSite, in the order of its code *)
StageOrder ==
    <<"Reset", "CopyAssets", "LoadConfig", "DiscoverPosts", "DiscoverTags",
      "RenderSpecialPages", "RenderPosts", "RenderTagPages", "Done">>

RECURSIVE Stages(_)
(* the stages a call went through: its steps without immediate repetitions *)
Stages(t) ==
    IF Len(t) <= 1 THEN t
    ELSE IF t[1] = t[2] THEN Stages(Tail(t))
    ELSE <<t[1]>> \o Stages(Tail(t))

IsPrefix(a, b) == Len(a) <= Len(b) /\ a = SubSeq(b, 1, Len(a))

(* the copy of markdown/assets runs between Reset and LoadConfig *)
Listed(stage) == stage # "CopyAssets"

(* C11: build stage order.  In every call of generateStaticSite the stages  *)
(* run in the order Reset, LoadConfig, DiscoverPosts, DiscoverTags,         *)
(* RenderSpecialPages (index, then the blog listing), RenderPosts,          *)
(* RenderTagPages, Done, each at most once and none again after a failure;  *)
(* no page is written before both discovery stages are over.                *)
C11_StageOrder ==
    /\ IsPrefix(Stages(trace), StageOrder)
    /\ IsPrefix(SelectSeq(Stages(trace), Listed), SelectSeq(StageOrder, Listed))
    /\ bpc \in {"assets", "config", "posts", "tags"} =>
          Pages(fs) = {} /\ written = <<>>
    /\ written # <<>> =>
          /\ cfg.Posts = posts /\ cfg.Tags = tags
          /\ written[1].path = <<SITE_DIR, INDEX_FILE_HTML>>
          /\ {"DiscoverPosts", "DiscoverTags", "RenderSpecialPages"}
                \subseteq {trace[i] : i \in 1..Len(trace)}
    /\ Len(written) >= 2 => written[2].path = <<SITE_DIR, BLOG_FILE_HTML>>
    /\ bpc = "done" =>
          IF berr = <<>> THEN Stages(trace) = StageOrder
          ELSE trace[Len(trace)] # "Done"

C11_Witness ==
    /\ bpc = "done" /\ berr = <<>>
    /\ Stages(trace) = StageOrder
    /\ Len(written) >= 5
    /\ Len(cfg.Posts) >= 2 /\ Len(cfg.Tags) >= 1

-----------------------------------------------------------------------------
(* the tag files generateStaticSite lists *)
TagFiles(f) == {Glob(f, tagsDir, JsonExt)[i] : i \in 1..Len(Glob(f, tagsDir, JsonExt))}

(* the tag files that cannot be read or decoded *)
InvalidTagFiles(f) ==
    {name \in TagFiles(f) :
        \/ ReadFile(f, Append(tagsDir, name)) = NoFile
        \/ UnmarshalTag(ReadFile(f, Append(tagsDir, name)), ZeroTag).err # ""}

(* the post files parsePost rejects *)
UnparsedPostFiles(f) ==
    {name \in PostFiles(f) :
        parsePost(PathBytes(Append(postsDir, name)), ReadFile(f, Append(postsDir, name))).err # ""}

(* the special files parsePost rejects *)
UnparsedSpecialFiles(f) ==
    {k \in 1..Len(specialFiles) :
        parsePost(PathBytes(<<MARKDOWN_DIR, specialFiles[k]>>),
                  ReadFile(f, <<MARKDOWN_DIR, specialFiles[k]>>)).err # ""}

(* config.json is there and decodes *)
ConfigOK(f) ==
    /\ IsFile(f, <<CONFIG_FILE>>)
    /\ UnmarshalConfig(ReadFile(f, <<CONFIG_FILE>>), ZeroConfig).err = ""

(* markdown/assets can be copied into a fresh site directory *)
CopyOK(f) ==
    ~CopyFS(resetStaticSite(f).fs, <<SITE_DIR>>, f, <<MARKDOWN_DIR, ASSETS_DIR>>).err

(* what markdown/assets puts into the site directory *)
AssetAt(f, p) == (<<MARKDOWN_DIR, ASSETS_DIR>> \o p) \in DOMAIN f

(* the operation whose failure the first part of an error message reports   *)
(* did fail on the sources in f                                             *)
Failed(f, message) ==
    CASE message = "error copying markdown/assets folder" -> ~CopyOK(f)
      [] message = "error opening config file" -> ~IsFile(f, <<CONFIG_FILE>>)
      [] message = "error unmarshaling config file" -> ~ConfigOK(f)
      [] message = "error rendering posts" -> UnparsedPostFiles(f) # {}
      [] message \in {"error reading tags metadata", "error unmarshaling tags metadata"} ->
            InvalidTagFiles(f) # {}
      [] message = "error parsing special file " -> UnparsedSpecialFiles(f) # {}
      [] message = "error rendering special pages" -> AssetAt(f, <<BLOG_FILE_HTML>>)
      [] message = "error creating docs/tagged/" -> AssetAt(f, <<NameTagged>>)
      [] OTHER -> FALSE

(* the stages after stage s have left no trace in the state *)
NothingAfter(s) ==
    /\ s \in {"Reset", "CopyAssets", "LoadConfig"} => posts = <<>>
    /\ s \in {"Reset", "CopyAssets", "LoadConfig", "DiscoverPosts"} => tags = <<>>
    /\ s \in {"Reset", "CopyAssets", "LoadConfig", "DiscoverPosts", "DiscoverTags"} =>
          written = <<>> /\ Pages(fs) = {}
    /\ s = "RenderSpecialPages" => \A i \in 1..Len(written) : Len(written[i].path) = 2
    /\ s = "RenderPosts" => \A i \in 1..Len(written) : Len(written[i].path) <= 3

-----------------------------------------------------------------------------
(* the paths of the site directory and below *)
Output(f) == {p \in DOMAIN f : HasPrefix(p, <<SITE_DIR>>)}

(* C13: no rollback on failure.  When a call of generateStaticSite fails in *)
(* some stage, the step that fails leaves every file and directory of the   *)
(* site directory as it was, and no step after the reset removes an entry:  *)
(* an entry changes only when a later page is created under its path.       *)
C13_NoRollback ==
    [][builds' = builds =>
          \A p \in Output(fs) :
              /\ p \in Output(fs')
              /\ fs'[p] # fs[p] =>
                    /\ berr' = <<>>
                    /\ Len(written') = Len(written) + 1
                    /\ written'[Len(written')].path = p]_vars

C13_Witness ==
    /\ bpc = "done"
    /\ berr # <<>> /\ berr[1] = "error creating docs/tagged/"
    /\ Len(written) >= 3
    /\ \A i \in 1..Len(written) : written[i].path \in Pages(fs)
    /\ \A p \in DOMAIN ResetTree : p \in DOMAIN fs

-----------------------------------------------------------------------------
(* the root names of the post files in f *)
PostRootNames(f) == {postRootName(PathBytes(Append(postsDir, name))) : name \in PostFiles(f)}

(* the slugs of the tag files in f *)
TagSlugs(f) ==
    {UnmarshalTag(ReadFile(f, Append(tagsDir, name)), ZeroTag).tag.Slug : name \in TagFiles(f)}

(* the pages of a site with the posts and tags in f *)
SitePages(f) ==
    {<<SITE_DIR, INDEX_FILE_HTML>>, <<SITE_DIR, BLOG_FILE_HTML>>}
       \cup {<<SITE_DIR, NameBlog, r \o HtmlExt>> : r \in PostRootNames(f)}
       \cup {<<SITE_DIR, NameTagged, s, s \o HtmlExt>> : s \in TagSlugs(f)}

(* C14: output layout.  After a successful build the pages written are      *)
(* exactly docs/index.html, docs/blog.html, docs/blog/<rootName>.html for   *)
(* every discovered post and docs/tagged/<slug>/<slug>.html for every       *)
(* discovered tag, and no other page.                                       *)
C14_OutputLayout ==
    (bpc = "done" /\ berr = <<>>) =>
       /\ Pages(fs) = SitePages(fs)
       /\ {written[i].path : i \in 1..Len(written)} = SitePages(fs)
       /\ {posts[i].RootName : i \in 1..Len(posts)} = PostRootNames(fs)
       /\ {tags[i].Slug : i \in 1..Len(tags)} = TagSlugs(fs)

C14_Witness ==
    /\ bpc = "done" /\ berr = <<>>
    /\ Cardinality(PostRootNames(fs)) = 2
    /\ Cardinality(TagSlugs(fs)) = 2
    /\ Cardinality(Pages(fs)) = 6

-----------------------------------------------------------------------------
(* the layout the metadata of the document at path declares *)
DeclaredLayout(f, path) == parsePost(PathBytes(path), ReadFile(f, path)).post.Layout

(* the layout a page under path p must be rendered with *)
FixedLayout(p) ==
    IF p = <<SITE_DIR, INDEX_FILE_HTML>> THEN LayoutDefault
    ELSE IF p = <<SITE_DIR, BLOG_FILE_HTML>> THEN LayoutBlog
    ELSE LayoutPost

(* C15: fixed layouts.  In every build the home page is rendered with the   *)
(* layout "default", the blog listing with "blog" and every post with       *)
(* "post", whatever layout their own metadata declares.                     *)
C15_FixedLayouts ==
    \A i \in 1..Len(written) :
        Len(written[i].path) <= 3 =>
           /\ written[i].page.layout = FixedLayout(written[i].path)
           /\ written[i].page.post.Layout = FixedLayout(written[i].path)
           /\ written[i].path \in Pages(fs)
           /\ fs[written[i].path].page.layout = FixedLayout(written[i].path)

C15_Witness ==
    /\ bpc = "done" /\ berr = <<>>
    /\ DeclaredLayout(fs, <<MARKDOWN_DIR, INDEX_FILE>>) = LayoutPost
    /\ DeclaredLayout(fs, <<MARKDOWN_DIR, BLOG_FILE>>) = LayoutPost
    /\ fs[<<SITE_DIR, INDEX_FILE_HTML>>].page.layout = LayoutDefault
    /\ fs[<<SITE_DIR, BLOG_FILE_HTML>>].page.layout = LayoutBlog
    /\ \E name \in PostFiles(fs) :
          /\ DeclaredLayout(fs, Append(postsDir, name)) = LayoutBlog
          /\ \E i \in 1..Len(written) :
                /\ written[i].page.post.Title = <<"B">>
                /\ written[i].page.layout = LayoutPost

-----------------------------------------------------------------------------
(* the entries of written that are pages of tags *)
TagPagesWritten == {i \in 1..Len(written) : Len(written[i].path) = 4}

(* the record a tag page is rendered from: no body, the slug as root name *)
SyntheticRecord(pg) ==
    /\ pg.post.RootName = pg.tag.Slug
    /\ pg.post.Markdown = <<>> /\ pg.post.HTML = ""
    /\ pg.post.Title = <<>> /\ pg.post.Tags = <<>>

-----------------------------------------------------------------------------
(* the discovery of the posts or of the tags has aborted *)
DiscoveryAborted ==
    /\ bpc = "done" /\ berr # <<>>
    /\ trace[Len(trace)] \in {"DiscoverPosts", "DiscoverTags"}

(* the file the aborted discovery was working on *)
OffendingFile ==
    IF trace[Len(trace)] = "DiscoverPosts" THEN Append(postsDir, Head(queue))
    ELSE Append(tagsDir, Head(queue))

(* the returned error names the path p *)
ErrorNames(p) == \E k \in 1..Len(berr) : berr[k] = Str(PathBytes(p))

(* C17 as stated: discovery errors identify the file.  Whenever the         *)
(* discovery of the posts or of the tags aborts because a file is           *)
(* unreadable or its metadata is malformed, the error the build returns     *)
(* contains the path of the offending file.                                 *)
C17_Original == DiscoveryAborted => ErrorNames(OffendingFile)

(* what the code does: the error names the file exactly when the file could *)
(* not be read; a file with malformed metadata is not named                 *)
C17_ReadErrorsOnly ==
    DiscoveryAborted => (ErrorNames(OffendingFile) <=> IsDir(fs, OffendingFile))

C17_Witness ==
    /\ DiscoveryAborted
    /\ IsFile(fs, OffendingFile)
    /\ OffendingFile[2] = NamePosts
    /\ berr = <<"error rendering posts", "error unmarshaling metadata">>

-----------------------------------------------------------------------------
(* The commands: initialize, createPost and createTag, and the JSON text    *)
(* json.MarshalIndent(v, "", "  ") gives for a Tag, a Post and the sample   *)
(* configuration.  The strings of the model need no escaping.               *)

(* strings.ToLower *)
StringsToLower(s) == [i \in 1..Len(s) |-> ToLower(s[i])]

(* strings.ReplaceAll(s, old, new) for single bytes *)
ReplaceAll(s, old, new) == [i \in 1..Len(s) |-> IF s[i] = old THEN new ELSE s[i]]

Indent == <<" ", " ">>

(* a JSON string *)
MarshalString(s) == <<QUOTE>> \o s \o <<QUOTE>>

RECURSIVE JoinMembers(_, _)
(* the members or elements of an indented object or array, one per line *)
JoinMembers(ms, prefix) ==
    IF ms = <<>> THEN <<>>
    ELSE prefix \o ms[1] \o (IF Len(ms) > 1 THEN <<",", LF>> ELSE <<>>)
           \o JoinMembers(Tail(ms), prefix)

(* an object with the members ms, itself at the indentation prefix *)
MarshalObject(ms, prefix) ==
    IF ms = <<>> THEN <<"{", "}">>
    ELSE <<"{", LF>> \o JoinMembers(ms, prefix \o Indent) \o <<LF>> \o prefix \o <<"}">>

(* a []string: null for the nil slice, [] for the empty one *)
MarshalStrings(ss, isNil, prefix) ==
    IF isNil THEN <<"n", "u", "l", "l">>
    ELSE IF ss = <<>> THEN <<"[", "]">>
    ELSE <<"[", LF>>
           \o JoinMembers([i \in 1..Len(ss) |-> MarshalString(ss[i])], prefix \o Indent)
           \o <<LF>> \o prefix \o <<"]">>

(* one member: "key": value *)
Member(key, value) == MarshalString(key) \o <<":", " ">> \o value

(* a string member, left out when it is tagged omitempty and empty *)
OmitEmpty(key, s) == IF s = <<>> THEN <<>> ELSE <<Member(key, MarshalString(s))>>

(* json.MarshalIndent of a Tag *)
MarshalIndentTag(t) ==
    MarshalObject(<<Member(TagSlug, MarshalString(t.Slug))>> \o OmitEmpty(TagLayout, t.Layout),
                  <<>>)

(* json.MarshalIndent of a Post without markdown and html *)
MarshalIndentPost(p, nilTags) ==
    MarshalObject(OmitEmpty(TagLayout, p.Layout) \o OmitEmpty(TagTitle, p.Title)
                    \o OmitEmpty(TagDate, p.Date) \o OmitEmpty(TagDescription, p.Description)
                    \o <<Member(TagTags, MarshalStrings(p.Tags, nilTags, Indent))>>
                    \o OmitEmpty(TagRootName, p.RootName),
                  <<>>)

(* json.MarshalIndent of sampleCfg *)
MarshalIndentSampleCfg ==
    <<"{", LF, " ", " ", QUOTE, "t", "i", "t", "l", "e", QUOTE, ":", " ", QUOTE, "c", "h", "e", "t", "t", "r", "i", "y", "u", "v", "r", "a", "j", QUOTE, ",", LF, " ", " ", QUOTE, "d", "e", "s", "c", "r", "i", "p", "t", "i", "o", "n", QUOTE, ":", " ", QUOTE, "Y", "u", "v", "r", "a", "j", " ", "C", "h", "e", "t", "t", "r", "i", "'", "s", " ", "p", "e", "r", "s", "o", "n", "a", "l", " ", "b", "l", "o", "g", QUOTE, ",", LF, " ", " ", QUOTE, "U", "R", "L", QUOTE, ":", " ", QUOTE, "h", "t", "t", "p", ":", "/", "/", "l", "o", "c", "a", "l", "h", "o", "s", "t", ":", "3", "0", "0", "0", QUOTE, ",", LF, " ", " ", QUOTE, "s", "p", "e", "c", "i", "a", "l", "_", "l", "i", "n", "k", "s", QUOTE, ":", " ", "[", LF, " ", " ", " ", " ", "{", LF, " ", " ", " ", " ", " ", " ", QUOTE, "U", "R", "L", QUOTE, ":", " ", QUOTE, "h", "t", "t", "p", "s", ":", "/", "/", "w", "w", "w", ".", "l", "i", "n", "k", "e", "d", "i", "n", ".", "c", "o", "m", "/", "i", "n", "/", "y", "u", "v", "r", "a", "j", "-", "c", "h", "e", "t", "t", "r", "i", "/", QUOTE, ",", LF, " ", " ", " ", " ", " ", " ", QUOTE, "d", "i", "s", "p", "l", "a", "y", "_", "t", "e", "x", "t", QUOTE, ":", " ", QUOTE, "L", "i", "n", "k", "e", "d", "i", "n", QUOTE, LF, " ", " ", " ", " ", "}", ",", LF, " ", " ", " ", " ", "{", LF, " ", " ", " ", " ", " ", " ", QUOTE, "U", "R", "L", QUOTE, ":", " ", QUOTE, "h", "t", "t", "p", "s", ":", "/", "/", "w", "w", "w", ".", "g", "i", "t", "h", "u", "b", ".", "c", "o", "m", "/", "c", "h", "e", "t", "t", "r", "i", "y", "u", "v", "r", "a", "j", QUOTE, ",", LF, " ", " ", " ", " ", " ", " ", QUOTE, "d", "i", "s", "p", "l", "a", "y", "_", "t", "e", "x", "t", QUOTE, ":", " ", QUOTE, "G", "i", "t", "h", "u", "b", QUOTE, LF, " ", " ", " ", " ", "}", LF, " ", " ", "]", ",", LF, " ", " ", QUOTE, "p", "a", "t", "h", "s", QUOTE, ":", " ", "{", LF, " ", " ", " ", " ", QUOTE, "b", "l", "o", "g", QUOTE, ":", " ", QUOTE, "/", "b", "l", "o", "g", QUOTE, LF, " ", " ", "}", ",", LF, " ", " ", QUOTE, "g", "o", "o", "g", "l", "e", "_", "a", "n", "a", "l", "y", "t", "i", "c", "s", QUOTE, ":", " ", "{", LF, " ", " ", " ", " ", QUOTE, "t", "r", "a", "c", "k", "i", "n", "g", "_", "i", "d", QUOTE, ":", " ", QUOTE, "1", "2", "3", "4", "5", "6", "7", QUOTE, LF, " ", " ", "}", LF, "}">>

(* the sample metadata of index.md and blog.md *)
IndexTitle == <<"(", "e", "n", "t", "e", "r", " ", "t", "i", "t", "l", "e", " ", "f", "o", "r", " ", "h", "o", "m", "e", "p", "a", "g", "e", " ", "-", " ", "t", "h", "i", "s", " ", "i", "s", " ", "w", "h", "a", "t", " ", "i", "s", " ", "d", "i", "s", "p", "l", "a", "y", "e", "d", " ", "w", "h", "e", "n", " ", "y", "o", "u", " ", "h", "o", "v", "e", "r", " ", "o", "v", "e", "r", " ", "y", "o", "u", "r", " ", "b", "r", "o", "w", "s", "e", "r", " ", "p", "a", "g", "e", " ", "t", "a", "b", ")">>
IndexDescription == <<"(", "e", "n", "t", "e", "r", " ", "d", "e", "s", "c", "r", "i", "p", "t", "i", "o", "n", " ", "f", "o", "r", " ", "h", "o", "m", "e", " ", "p", "a", "g", "e", " ", "-", " ", "t", "h", "i", "s", " ", "i", "s", " ", "m", "e", "t", "a", "d", "a", "t", "a", " ", "a", "n", "d", " ", "n", "o", "t", " ", "w", "e", "b", "s", "i", "t", "e", " ", "d", "i", "s", "p", "l", "a", "y", "a", "b", "l", "e", " ", "c", "o", "n", "t", "e", "n", "t", ")">>
BlogTitle == <<"(", "e", "n", "t", "e", "r", " ", "t", "i", "t", "l", "e", " ", "f", "o", "r", " ", "b", "l", "o", "g", " ", "p", "a", "g", "e", " ", "-", " ", "t", "h", "i", "s", " ", "i", "s", " ", "w", "h", "a", "t", " ", "i", "s", " ", "d", "i", "s", "p", "l", "a", "y", "e", "d", " ", "w", "h", "e", "n", " ", "y", "o", "u", " ", "h", "o", "v", "e", "r", " ", "o", "v", "e", "r", " ", "y", "o", "u", "r", " ", "b", "r", "o", "w", "s", "e", "r", " ", "p", "a", "g", "e", " ", "t", "a", "b", ")">>
BlogDescription == <<"(", "e", "n", "t", "e", "r", " ", "d", "e", "s", "c", "r", "i", "p", "t", "i", "o", "n", " ", "f", "o", "r", " ", "b", "l", "o", "g", " ", "p", "a", "g", "e", " ", "-", " ", "t", "h", "i", "s", " ", "i", "s", " ", "m", "e", "t", "a", "d", "a", "t", "a", " ", "a", "n", "d", " ", "n", "o", "t", " ", "w", "e", "b", "s", "i", "t", "e", " ", "d", "i", "s", "p", "l", "a", "y", "a", "b", "l", "e", " ", "c", "o", "n", "t", "e", "n", "t", ")">>

NameImages == <<"i", "m", "a", "g", "e", "s">>

(* mutant: config.json is created and nothing is written to it *)
initializeConfigEmpty(f) ==
    LET m1 == MkdirAll(f, <<MARKDOWN_DIR, NamePosts>>)
        m2 == MkdirAll(m1.fs, <<MARKDOWN_DIR, NameTags>>)
        m3 == MkdirAll(m2.fs, <<MARKDOWN_DIR, ASSETS_DIR, NameImages>>)
        index == [ZeroPost EXCEPT !.Title = IndexTitle, !.Description = IndexDescription]
        blog == [ZeroPost EXCEPT !.Title = BlogTitle, !.Description = BlogDescription]
        w1 == Create(m3.fs, <<MARKDOWN_DIR, INDEX_FILE>>,
                     FileEntry(addFrontmatter(MarshalIndentPost(index, TRUE))))
        w2 == Create(w1.fs, <<MARKDOWN_DIR, BLOG_FILE>>,
                     FileEntry(addFrontmatter(MarshalIndentPost(blog, TRUE))))
        w3 == Create(w2.fs, <<CONFIG_FILE>>, FileEntry(<<>>))
    IN  IF m1.err THEN [fs |-> f, err |-> <<"error creating markdown/posts folder">>]
        ELSE IF m2.err THEN [fs |-> m1.fs, err |-> <<"error creating markdown/tags folder">>]
        ELSE IF m3.err
        THEN [fs |-> m2.fs, err |-> <<"error creating markdown/assets/images folder">>]
        ELSE IF w1.err
        THEN [fs |-> m3.fs,
              err |-> <<"error creating file ", Str(PathBytes(<<MARKDOWN_DIR, INDEX_FILE>>))>>]
        ELSE IF w2.err
        THEN [fs |-> w1.fs,
              err |-> <<"error creating file ", Str(PathBytes(<<MARKDOWN_DIR, BLOG_FILE>>))>>]
        ELSE IF w3.err
        THEN [fs |-> w2.fs, err |-> <<"error creating file ", Str(CONFIG_FILE)>>]
        ELSE [fs |-> w3.fs, err |-> <<>>]

(* initialize(): the directories, then index.md, blog.md and config.json *)
initialize(f) ==
    LET m1 == MkdirAll(f, <<MARKDOWN_DIR, NamePosts>>)
        m2 == MkdirAll(m1.fs, <<MARKDOWN_DIR, NameTags>>)
        m3 == MkdirAll(m2.fs, <<MARKDOWN_DIR, ASSETS_DIR, NameImages>>)
        index == [ZeroPost EXCEPT !.Title = IndexTitle, !.Description = IndexDescription]
        blog == [ZeroPost EXCEPT !.Title = BlogTitle, !.Description = BlogDescription]
        w1 == Create(m3.fs, <<MARKDOWN_DIR, INDEX_FILE>>,
                     FileEntry(addFrontmatter(MarshalIndentPost(index, TRUE))))
        w2 == Create(w1.fs, <<MARKDOWN_DIR, BLOG_FILE>>,
                     FileEntry(addFrontmatter(MarshalIndentPost(blog, TRUE))))
        w3 == Create(w2.fs, <<CONFIG_FILE>>, FileEntry(MarshalIndentSampleCfg))
    IN  IF m1.err THEN [fs |-> f, err |-> <<"error creating markdown/posts folder">>]
        ELSE IF m2.err THEN [fs |-> m1.fs, err |-> <<"error creating markdown/tags folder">>]
        ELSE IF m3.err
        THEN [fs |-> m2.fs, err |-> <<"error creating markdown/assets/images folder">>]
        ELSE IF w1.err
        THEN [fs |-> m3.fs,
              err |-> <<"error creating file ", Str(PathBytes(<<MARKDOWN_DIR, INDEX_FILE>>))>>]
        ELSE IF w2.err
        THEN [fs |-> w1.fs,
              err |-> <<"error creating file ", Str(PathBytes(<<MARKDOWN_DIR, BLOG_FILE>>))>>]
        ELSE IF w3.err
        THEN [fs |-> w2.fs, err |-> <<"error creating file ", Str(CONFIG_FILE)>>]
        ELSE [fs |-> w3.fs, err |-> <<>>]

(* mutant: the file is named after the title as it is *)
createPostKeepSpaces(f, title, ts, date) ==
    LET filename == title
        path == <<MARKDOWN_DIR, NamePosts, filename \o MdExt>>
        metadata == [ZeroPost EXCEPT !.Title = title, !.Tags = ts, !.Date = date]
        w == Create(f, path, FileEntry(addFrontmatter(MarshalIndentPost(metadata, FALSE))))
    IN  IF title = <<>> THEN [fs |-> f, err |-> <<"no title provided">>]
        ELSE IF w.err
        THEN [fs |-> f, err |-> <<"error creating post file ", Str(PathBytes(path)),
                                  "error writing frontmatter to file">>]
        ELSE [fs |-> w.fs, err |-> <<>>]

(* createPost(title, tags), called on the day date *)
createPost(f, title, ts, date) ==
    LET filename == ReplaceAll(title, " ", "_")
        path == <<MARKDOWN_DIR, NamePosts, filename \o MdExt>>
        metadata == [ZeroPost EXCEPT !.Title = title, !.Tags = ts, !.Date = date]
        w == Create(f, path, FileEntry(addFrontmatter(MarshalIndentPost(metadata, FALSE))))
    IN  IF title = <<>> THEN [fs |-> f, err |-> <<"no title provided">>]
        ELSE IF w.err
        THEN [fs |-> f, err |-> <<"error creating post file ", Str(PathBytes(path)),
                                  "error writing frontmatter to file">>]
        ELSE [fs |-> w.fs, err |-> <<>>]

(* mutant: the descriptor of a tag keeps the case of the argument *)
createTagOneKeepCase(f, t) ==
    LET slug == t
        path == <<MARKDOWN_DIR, NameTags, slug \o JsonExt>>
        w == Create(f, path, FileEntry(MarshalIndentTag([ZeroTag EXCEPT !.Slug = slug])))
    IN  IF w.err
        THEN [fs |-> f, err |-> <<"error creating tag file ", Str(PathBytes(path))>>]
        ELSE [fs |-> w.fs, err |-> <<>>]

(* one iteration of createTag: the descriptor of tag t *)
createTagOne(f, t) ==
    LET slug == StringsToLower(t)
        path == <<MARKDOWN_DIR, NameTags, slug \o JsonExt>>
        w == Create(f, path, FileEntry(MarshalIndentTag([ZeroTag EXCEPT !.Slug = slug])))
    IN  IF w.err
        THEN [fs |-> f, err |-> <<"error creating tag file ", Str(PathBytes(path))>>]
        ELSE [fs |-> w.fs, err |-> <<>>]

RECURSIVE createTag(_, _)
(* createTag(tags): it returns at the first descriptor it cannot write *)
createTag(f, ts) ==
    IF ts = <<>> THEN [fs |-> f, err |-> <<>>]
    ELSE IF createTagOne(f, ts[1]).err # <<>> THEN createTagOne(f, ts[1])
    ELSE createTag(createTagOne(f, ts[1]).fs, Tail(ts))

-----------------------------------------------------------------------------
(* main: the command line mode.  fnIn holds os.Args[1:] of the last process *)
(* and fnOut what became of it: the error its command function returned,    *)
(* the exit status and what the logger wrote.                               *)

commands == {<<"i", "n", "i", "t">>, <<"g", "e", "n", "e", "r", "a", "t", "e">>, <<"p", "o", "s", "t">>, <<"t", "a", "g">>, <<"s", "e", "r", "v", "e">>}

(* what logger.Fatalf(help()) writes *)
HelpText == <<"help">>

(* the process has ended *)
Exited(f, e, status, reported) ==
    [fs |-> f, err |-> e, status |-> status, reported |-> reported]

(* if err != nil { logger.Fatal(err) } at the end of main *)
MainEnd(r) ==
    IF r.err # <<>> THEN Exited(r.fs, r.err, 1, r.err) ELSE Exited(r.fs, <<>>, 0, <<>>)

(* case "post": without -t the result of createPost is dropped and main     *)
(* returns                                                                  *)
MainPost(f, args, date) ==
    IF Len(args) < 2 THEN Exited(f, <<>>, 1, HelpText)
    ELSE IF Len(args) < 4 \/ args[3] # <<"-", "t">>
    THEN Exited(createPost(f, args[2], <<>>, date).fs,
                createPost(f, args[2], <<>>, date).err, 0, <<>>)
    ELSE MainEnd(createPost(f, args[2], SubSeq(args, 4, Len(args)), date))

(* case "tag" *)
MainTag(f, args) ==
    IF Len(args) < 2 THEN Exited(f, <<>>, 1, HelpText)
    ELSE MainEnd(createTag(f, SubSeq(args, 2, Len(args))))

(* main with the arguments args, for the commands that run in one step *)
main(f, args, date) ==
    IF args[1] \notin commands THEN Exited(f, <<>>, 1, HelpText)
    ELSE IF args[1] = <<"i", "n", "i", "t">> THEN MainEnd(initialize(f))
    ELSE IF args[1] = <<"p", "o", "s", "t">> THEN MainPost(f, args, date)
    ELSE MainTag(f, args)

(* the command lines of the model *)
TitleA == <<"a">>
TitleAB == <<"a", " ", "b">>
TitleDot == <<"a", ".", "b">>
TagGo == <<"G", "o">>
TagX == <<"x">>
Dates == {<<"N", "o", "v", " ", "5", "t", "h", ",", " ", "2", "0", "2", "6">>}

CommandLines ==
    {<<<<"i", "n", "i", "t">>>>, <<<<"b", "o", "g", "u", "s">>>>,
     <<<<"p", "o", "s", "t">>>>, <<<<"p", "o", "s", "t">>, <<>>>>, <<<<"p", "o", "s", "t">>, TitleA>>, <<<<"p", "o", "s", "t">>, TitleAB>>,
     <<<<"p", "o", "s", "t">>, TitleDot>>,
     <<<<"p", "o", "s", "t">>, TitleA, <<"-", "t">>>>, <<<<"p", "o", "s", "t">>, TitleA, <<"-", "t">>, TagGo>>,
     <<<<"p", "o", "s", "t">>, <<>>, <<"-", "t">>, TagGo>>,
     <<<<"t", "a", "g">>>>, <<<<"t", "a", "g">>, TagGo>>, <<<<"t", "a", "g">>, TagGo, TagX>>}

(* the working directories the commands are started in: an empty one, and   *)
(* one where markdown is a file                                             *)
StartDirs == {EmptyFS, Put(EmptyFS, <<MARKDOWN_DIR>>, FileEntry(<<>>))}

(* the process of the last command line has ended with r *)
MainExited(args, r) ==
    /\ fs' = r.fs
    /\ fnIn' = args
    /\ fnOut' = [err |-> r.err, status |-> r.status, reported |-> r.reported]

(* one of the command lines is run to its end *)
RunCommand(lines) ==
    /\ fnPc = "shell" /\ bpc = "idle"
    /\ \E args \in lines : \E date \in Dates : MainExited(args, main(fs, args, date))
    /\ UNCHANGED <<fnPc, codecVars, resetVars, buildVars, embedded, uiVars>>

(* ez-ssg init | post ... | tag ... *)
MainCommand == RunCommand(CommandLines)

(* ez-ssg generate: generateStaticSite has returned and main ends, or the   *)
(* panic of the call has ended the process with status 2                    *)
MainGenerateExit ==
    /\ fnPc = "shell" /\ bpc \in {"done", "panic"}
    /\ MainExited(<<<<"g", "e", "n", "e", "r", "a", "t", "e">>>>,
                  IF bpc = "panic" THEN Exited(fs, berr, 2, berr)
                  ELSE MainEnd([fs |-> fs, err |-> berr]))
    /\ bpc' = "idle" /\ berr' = <<>>
    /\ cfg' = ZeroConfig /\ posts' = <<>> /\ tags' = <<>> /\ queue' = <<>>
    /\ includesRender' = NoIncludes
    /\ UNCHANGED <<fnPc, builds, trace, written, codecVars, resetVars, embedded, uiVars>>

CLIStart == fnIn = <<>> /\ fnOut = <<>> /\ fnPc = "shell"

InitCLI == CodecStart /\ CLIStart /\ fs \in StartDirs /\ ResetRest /\ BuildStart /\ ShippedTemplates /\ UIOff

CLINext ==
    \/ MainCommand
    \/ BuildReset
    \/ BuildCopyAssets
    \/ BuildLoadConfig
    \/ BuildDiscoverPost
    \/ BuildPostsDone
    \/ BuildDiscoverTag
    \/ BuildTagsDone
    \/ BuildRenderSpecial
    \/ BuildSpecialDone
    \/ BuildRenderPost
    \/ BuildRenderDone
    \/ BuildRenderTag
    \/ BuildReturn
    \/ MainGenerateExit

SpecCLI == InitCLI /\ [][CLINext]_vars

-----------------------------------------------------------------------------
(* the command function of the last process has returned an error *)
CommandFailed == fnPc = "shell" /\ fnOut # <<>> /\ fnOut.err # <<>>

(* the last process was ez-ssg post <title> without the -t flag and tags *)
PostWithoutTags ==
    /\ Len(fnIn) >= 2 /\ fnIn[1] = <<"p", "o", "s", "t">>
    /\ Len(fnIn) < 4 \/ fnIn[3] # <<"-", "t">>

(* C18 as stated: CLI failure exit.  For every command (init, generate,     *)
(* post with or without -t, tag), if the function of the command returns an *)
(* error the process reports it and exits with a non-zero status; no        *)
(* command fails silently with exit status zero.                            *)
C18_Original == CommandFailed => (fnOut.status # 0 /\ fnOut.reported = fnOut.err)

(* what the code does: the error is reported with status 1, except for post *)
(* without -t, whose error is dropped and whose status is 0                 *)
C18_ExitStatus ==
    CommandFailed =>
       IF PostWithoutTags THEN fnOut.status = 0 /\ fnOut.reported = <<>>
       ELSE fnOut.status = 1 /\ fnOut.reported = fnOut.err

C18_Witness ==
    /\ CommandFailed
    /\ fnIn = <<<<"p", "o", "s", "t">>, TitleA>>
    /\ fnOut.err[1] = "error creating post file "
    /\ fnOut.status = 0 /\ fnOut.reported = <<>>

-----------------------------------------------------------------------------
(* lowercase(t) for the tags of the command lines *)
Lowercase(t) == IF t = TagGo THEN <<"g", "o">> ELSE t

(* the descriptor and the page of the tag createTag was given as t *)
DescriptorOf(t) == <<MARKDOWN_DIR, NameTags, Lowercase(t) \o JsonExt>>
TagPageOf(t) == <<SITE_DIR, NameTagged, Lowercase(t), Lowercase(t) \o HtmlExt>>

(* C19: tag slug.  For every input t given to createTag the descriptor      *)
(* written is the file <lowercase(t)>.json holding slug = lowercase(t), and *)
(* a following successful build creates the directory                       *)
(* tagged/<lowercase(t)> and writes tagged/<lowercase(t)>/<lowercase(t)>.html *)
(* using the slug as it is.                                                 *)
C19_TagSlug ==
    /\ (fnOut # <<>> /\ Len(fnIn) >= 2 /\ fnIn[1] = <<"t", "a", "g">> /\ fnOut.err = <<>>) =>
          \A k \in 2..Len(fnIn) :
              /\ IsFile(fs, DescriptorOf(fnIn[k]))
              /\ UnmarshalTag(ReadFile(fs, DescriptorOf(fnIn[k])), ZeroTag)
                    = [tag |-> [Slug |-> Lowercase(fnIn[k]), Layout |-> <<>>], err |-> ""]
    /\ TagFiles(fs) \subseteq {Lowercase(t) \o JsonExt : t \in {TagGo, TagX}}
    /\ (bpc = "done" /\ berr = <<>>) =>
          \A t \in {TagGo, TagX} :
              IsFile(fs, DescriptorOf(t)) =>
                 /\ IsDir(fs, <<SITE_DIR, NameTagged, Lowercase(t)>>)
                 /\ TagPageOf(t) \in Pages(fs)
                 /\ fs[TagPageOf(t)].page.tag.Slug = Lowercase(t)
                 /\ fs[TagPageOf(t)].page.post.RootName = Lowercase(t)

C19_Witness ==
    /\ bpc = "done" /\ berr = <<>>
    /\ fnIn = <<<<"t", "a", "g">>, TagGo, TagX>>
    /\ fnOut.err = <<>>
    /\ IsFile(fs, <<MARKDOWN_DIR, NameTags, <<"g", "o", ".", "j", "s", "o", "n">>>>)
    /\ ~IsFile(fs, <<MARKDOWN_DIR, NameTags, <<"G", "o", ".", "j", "s", "o", "n">>>>)
    /\ <<SITE_DIR, NameTagged, <<"g", "o">>, <<"g", "o", ".", "h", "t", "m", "l">>>> \in Pages(fs)
    /\ <<SITE_DIR, NameTagged, <<"x">>, <<"x", ".", "h", "t", "m", "l">>>> \in Pages(fs)

-----------------------------------------------------------------------------
(* no operation of a build fails on the sources in f *)
SourcesOK(f) ==
    /\ CopyOK(f) /\ ConfigOK(f)
    /\ UnparsedPostFiles(f) = {} /\ InvalidTagFiles(f) = {}
    /\ UnparsedSpecialFiles(f) = {}
    /\ ~AssetAt(f, <<BLOG_FILE_HTML>>) /\ ~AssetAt(f, <<NameTagged>>)

(* the last entry of written under the path of entry i *)
LastWritten(i) ==
    CHOOSE j \in i..Len(written) :
        /\ written[j].path = written[i].path
        /\ \A k \in (j + 1)..Len(written) : written[k].path # written[i].path

(* C20: duplicate root names.  When two records rendered into the same      *)
(* output directory have the same root name (two posts, or two tag          *)
(* descriptors with the same slug), the build raises no error, both records *)
(* stay in Site.Posts / Site.Tags, and the output file holds the page of    *)
(* the record rendered last.                                                *)
C20_DuplicateRootNames ==
    (bpc = "done" /\ SourcesOK(fs)) =>
       /\ berr = <<>>
       /\ Len(cfg.Posts) = Cardinality(PostFiles(fs))
       /\ Len(cfg.Tags) = Cardinality(TagFiles(fs))
       /\ Len(written) = Len(specialFiles) + Len(cfg.Posts) + Len(cfg.Tags)
       /\ \A i \in 1..Len(written) :
             fs[written[i].path].page = written[LastWritten(i)].page

C20_Witness ==
    /\ bpc = "done" /\ berr = <<>>
    /\ \E i, j \in 1..Len(cfg.Posts) :
          /\ i < j /\ cfg.Posts[i].RootName = cfg.Posts[j].RootName
          /\ cfg.Posts[i].Title = <<"B">> /\ cfg.Posts[j].Title = <<"A">>
          /\ fs[<<SITE_DIR, NameBlog, cfg.Posts[j].RootName \o HtmlExt>>].page.post.Title = <<"A">>
    /\ \E i, j \in 1..Len(cfg.Tags) :
          /\ i < j /\ cfg.Tags[i].Slug = cfg.Tags[j].Slug
          /\ cfg.Tags[i].Layout = <<>> /\ cfg.Tags[j].Layout = LayoutPost
          /\ fs[<<SITE_DIR, NameTagged, cfg.Tags[j].Slug, cfg.Tags[j].Slug \o HtmlExt>>].page.tag
                = cfg.Tags[j]
    /\ Cardinality(Pages(fs)) = Len(written) - 2

-----------------------------------------------------------------------------
(* C21: the boundary counter of readPost *)

(* the lines of the document the scanner still has to return *)
LinesLeft ==
    Cardinality({i \in 1..Len(scanRest) : scanRest[i] = LF})
      + (IF scanRest # <<>> /\ scanRest[Len(scanRest)] # LF THEN 1 ELSE 0)

(* the lines of a user-written document readPost has scanned so far *)
Scanned == Len(docLines) - LinesLeft

(* the scanned lines that are equal to the boundary literal *)
ScannedBoundaries == {i \in 1..Scanned : IsBoundary(docLines[i])}

(* the scanned lines in front of which two boundary lines were scanned *)
AfterTwo ==
    {i \in 1..Scanned : Cardinality({j \in ScannedBoundaries : j < i}) >= 2}

(* the lines of the set S in document order, each followed by tail *)
LinesOf(S, tail) ==
    Concat([i \in 1..Scanned |-> IF i \in S THEN docLines[i] \o tail ELSE <<>>])

(* what the scan of a user-written document has counted and copied *)
ScanState ==
    (rpc \in {"scan", "done"} /\ origin = "user" /\ file # NoFile) =>
        /\ boundaryCount = (IF Cardinality(ScannedBoundaries) < 2
                            THEN Cardinality(ScannedBoundaries) ELSE 2)
        /\ bufContent = LinesOf(AfterTwo, <<LF>>)
        /\ bufFrontMatter = LinesOf((1..Scanned \ AfterTwo) \ ScannedBoundaries, <<>>)

(* C21: boundary counter.  While readPost scans a document boundaryCount is *)
(* 0, 1 or 2 and never decreases, the lines dropped are exactly the first   *)
(* two lines equal to the boundary literal, and every line after them, a    *)
(* line equal to the literal included, is copied into the body.             *)
C21_BoundaryCounter ==
    /\ [](boundaryCount \in {0, 1, 2} /\ discarded = boundaryCount /\ ScanState)
    /\ [][rpc = "scan" => boundaryCount' >= boundaryCount]_vars

(* a document with a third boundary line has been read to its end *)
C21_Witness ==
    /\ rpc = "done" /\ origin = "user" /\ perr # "read"
    /\ Cardinality(ScannedBoundaries) >= 3
    /\ boundaryCount = 2
    /\ \E i \in AfterTwo : IsBoundary(docLines[i])

-----------------------------------------------------------------------------
(* The commands run by a program whose templates are not the shipped ones:  *)
(* a partial or a layout is not among the embedded files, or the execution  *)
(* of one stops with an error.                                              *)

TemplateBuilds ==
    {Shipped,
     [Shipped EXCEPT !.includes = @ \ {"footer-post.html"}],
     [Shipped EXCEPT !.failingIncludes = {"head.html"}],
     [Shipped EXCEPT !.layouts = @ \ {LayoutPost}],
     [Shipped EXCEPT !.layouts = @ \ {LayoutTagged}],
     [Shipped EXCEPT !.failingLayouts = {LayoutBlog}],
     [Shipped EXCEPT !.failingLayouts = {LayoutTagged}]}

InitTemplates ==
    CodecStart /\ CLIStart /\ fs = EmptyFS /\ ResetRest /\ BuildStart
      /\ embedded \in TemplateBuilds /\ UIOff

(* the command lines that fill the working directory of these programs *)
TemplateCommandLines ==
    {<<<<"i", "n", "i", "t">>>>,
     <<<<"p", "o", "s", "t">>, TitleA, <<"-", "t">>, TagGo>>,
     <<<<"t", "a", "g">>, TagGo, TagX>>}

TemplateCommand == RunCommand(TemplateCommandLines)

TemplatesNext ==
    \/ TemplateCommand
    \/ BuildReset
    \/ BuildCopyAssets
    \/ BuildLoadConfig
    \/ BuildDiscoverPost
    \/ BuildPostsDone
    \/ BuildDiscoverTag
    \/ BuildTagsDone
    \/ BuildRenderSpecial
    \/ BuildSpecialDone
    \/ BuildRenderPost
    \/ BuildRenderDone
    \/ BuildRenderTag
    \/ BuildReturn
    \/ MainGenerateExit

SpecTemplates == InitTemplates /\ [][TemplatesNext]_vars

-----------------------------------------------------------------------------
(* C22: failure of a fragment *)

(* the symbolic names of the four partials *)
SymbolicNames == {INCLUDES_HEAD, INCLUDES_HEADER, INCLUDES_FOOTER, INCLUDES_FOOTERPOST}

(* a partial of the program is missing or stops with an error *)
FragmentsBroken ==
    embedded.includes # ShippedIncludes \/ embedded.failingIncludes # {}

(* the fragments handed to the layout of page pg: one is missing or is the  *)
(* output of an execution that stopped with an error                        *)
BrokenFragment(pg) ==
    \E k \in SymbolicNames : k \notin DOMAIN pg.includes \/ ~pg.includes[k].whole

(* C22 as claimed: fragment failure aborts the page.  No page is written    *)
(* whose fragments are missing or failed, and a build of a program with     *)
(* such a partial does not succeed.                                         *)
C22_Original ==
    /\ \A i \in 1..Len(written) : ~BrokenFragment(written[i].page)
    /\ (FragmentsBroken /\ bpc = "done") => berr # <<>>

(* C22, what the code does: the error of includes.ExecuteTemplate is        *)
(* dropped.  Every page is written with what the partials left in the       *)
(* buffer, whole or not, and without the fragment of a partial that is not  *)
(* there.                                                                   *)
C22_FragmentErrorsDropped ==
    /\ \A i \in 1..Len(written) :
          \A n \in includesEFS :
              written[i].page.includes[IncludesKey(n)]
                = Fragment(n, [Site |-> written[i].page.site, Post |-> written[i].page.post])
    /\ FragmentsBroken => \A i \in 1..Len(written) : BrokenFragment(written[i].page)

(* a build has succeeded although head.html stopped with an error on every  *)
(* page, and although footer-post.html is not there                         *)
C22_Witness ==
    /\ bpc = "done" /\ berr = <<>> /\ FragmentsBroken
    /\ Len(written) >= 3
    /\ \A i \in 1..Len(written) : BrokenFragment(written[i].page)
    /\ \E i \in 1..Len(written) :
          written[i].path = <<SITE_DIR, INDEX_FILE_HTML>> /\ fs[written[i].path].page = written[i].page

-----------------------------------------------------------------------------
(* C23: failure of a layout *)

(* a layout of the program is missing or stops with an error *)
LayoutsBroken ==
    embedded.layouts # ShippedLayouts \/ embedded.failingLayouts # {}

(* C23 as claimed: layout failure is fatal.  No page is written from a      *)
(* layout that is missing or whose execution failed, the render returns an  *)
(* error instead (the call does not panic), and a build with such a page    *)
(* does not succeed.                                                        *)
C23_Original ==
    /\ \A i \in 1..Len(written) :
          written[i].page.layout \in layoutsEFS /\ written[i].page.whole
    /\ bpc # "panic"

(* C23, what the code does.  A layout that is not there: renderPostHTML     *)
(* returns the error of template.ParseFS before the file is created and the *)
(* build fails with it; renderTagsHTML drops that error and calls Execute   *)
(* through the nil template, which panics before the file is created.  A    *)
(* layout whose execution fails: the error of Execute is dropped and the    *)
(* page is written with what the buffer holds.                              *)
C23_LayoutFailures ==
    /\ \A i \in 1..Len(written) :
          /\ written[i].page.layout \in layoutsEFS
          /\ written[i].page.whole = Executes(written[i].page.layout)
    /\ bpc = "panic" =>
          /\ LayoutTagged \notin layoutsEFS /\ berr = NilDereference
          /\ cfg.Tags # <<>> /\ queue # <<>>
          /\ \A i \in 1..Len(written) : written[i].page.layout # LayoutTagged
    /\ (bpc = "done" /\ LayoutPost \notin layoutsEFS /\ cfg.Posts # <<>>) =>
          /\ berr # <<>>
          /\ \A i \in 1..Len(written) : written[i].page.layout # LayoutPost
    /\ (bpc = "done" /\ LayoutTagged \notin layoutsEFS /\ cfg.Tags # <<>>) => berr # <<>>

(* the build has failed at the first post because the layout "post" is not  *)
(* there: the special pages are written, the page of the post is not        *)
C23_Witness ==
    /\ bpc = "done" /\ LayoutPost \notin layoutsEFS
    /\ berr = <<"error rendering posts", "error parsing layout template file ", "post">>
    /\ Len(written) = 2
    /\ IsDir(fs, <<SITE_DIR, NameBlog>>)
    /\ ~\E p \in DOMAIN fs : HasPrefix(p, <<SITE_DIR, NameBlog>>) /\ p # <<SITE_DIR, NameBlog>>

-----------------------------------------------------------------------------
(* C25: the keys of the fragment mapping *)

(* C25 as claimed: closed fragment set.  The mapping handed to a layout has *)
(* exactly the four symbolic names as its keys.                             *)
C25_Original ==
    \A i \in 1..Len(written) : DOMAIN written[i].page.includes = SymbolicNames

(* C25: the mapping handed to a layout is the package variable              *)
(* includesRender itself.  Its keys are the four symbolic names, each with  *)
(* the fragment of the page, and the file names of the four partials, each  *)
(* with the empty string.                                                   *)
C25_FragmentKeys ==
    \A i \in 1..Len(written) :
        /\ DOMAIN written[i].page.includes = SymbolicNames \cup ShippedIncludes
        /\ \A n \in ShippedIncludes :
              /\ written[i].page.includes[n] = NoFragment
              /\ written[i].page.includes[IncludesKey(n)].partial = n
        /\ fs[written[i].path].page.includes = written[LastWritten(i)].page.includes

(* the page of a post and the page of a tag have been written *)
C25_Witness ==
    /\ bpc = "done" /\ berr = <<>>
    /\ \E i, j \in 1..Len(written) :
          /\ written[i].page.layout = LayoutPost
          /\ written[j].page.layout = LayoutTagged
          /\ Cardinality(DOMAIN written[i].page.includes) = 8
          /\ Cardinality(DOMAIN fs[written[j].path].page.includes) = 8

-----------------------------------------------------------------------------
(* C26: the fragments of a page *)

(* the data the partials of page pg are executed on *)
IncludesContent(pg) == [Site |-> pg.site, Post |-> pg.post]

(* C26: fresh fragments per page.  The layout of every page is handed,      *)
(* under each of the four symbolic names, the output of that partial for    *)
(* this page and the site configuration of the build, whatever the map      *)
(* held from the pages rendered before.                                     *)
C26_FreshFragments ==
    \A i \in 1..Len(written) :
        /\ written[i].page.site = cfg
        /\ \A n \in ShippedIncludes :
              written[i].page.includes[IncludesKey(n)]
                = Fragment(n, IncludesContent(written[i].page))

(* three pages of different records have been rendered one after the other *)
(* through the one map, which is left with the fragments of the last page   *)
C26_Witness ==
    /\ bpc = "done" /\ berr = <<>>
    /\ Len(written) >= 3
    /\ \A i, j \in 1..Len(written) : i # j => written[i].page.post # written[j].page.post
    /\ written[Len(written)].page.layout = LayoutTagged
    /\ includesRender = written[Len(written)].page.includes
    /\ includesRender[INCLUDES_HEAD].Post # written[1].page.post

-----------------------------------------------------------------------------
(* C28: ez-ssg init, then ez-ssg generate *)

(* what the working directory holds outside docs *)
OutsideSite(f) == [p \in {q \in DOMAIN f : ~HasPrefix(q, <<SITE_DIR>>)} |-> f[p]]

(* the sources are those initialize has written into an empty directory *)
InitializedOnly == OutsideSite(fs) = initialize(EmptyFS).fs

(* the three files of initialize are read without an error *)
InitializedFilesParse ==
    /\ UnmarshalConfig(ReadFile(fs, <<CONFIG_FILE>>), ZeroConfig).err = ""
    /\ \A i \in 1..Len(specialFiles) :
          parsePost(PathBytes(<<MARKDOWN_DIR, specialFiles[i]>>),
                    ReadFile(fs, <<MARKDOWN_DIR, specialFiles[i]>>)).err = ""

(* C28: init then generate.  Starting from an empty working directory,      *)
(* initialize followed by generateStaticSite, with no edit in between,      *)
(* raises no error and leaves the pages index.html and blog.html: the files *)
(* initialize writes are accepted by the parser of the build.               *)
C28_InitThenGenerate ==
    InitializedOnly =>
       /\ InitializedFilesParse
       /\ bpc # "panic" /\ berr = <<>>
       /\ bpc = "done" =>
             /\ Pages(fs) = {<<SITE_DIR, INDEX_FILE_HTML>>, <<SITE_DIR, BLOG_FILE_HTML>>}
             /\ fs[<<SITE_DIR, INDEX_FILE_HTML>>].page.post.Title = IndexTitle
             /\ fs[<<SITE_DIR, BLOG_FILE_HTML>>].page.post.Title = BlogTitle
             /\ fs[<<SITE_DIR, BLOG_FILE_HTML>>].page.site.Title = <<"c", "h", "e", "t", "t", "r", "i", "y", "u", "v", "r", "a", "j">>

C28_Witness ==
    /\ InitializedOnly /\ bpc = "done" /\ berr = <<>>
    /\ fnIn = <<<<"i", "n", "i", "t">>>> /\ fnOut.err = <<>>
    /\ <<SITE_DIR, INDEX_FILE_HTML>> \in Pages(fs)
    /\ <<SITE_DIR, BLOG_FILE_HTML>> \in Pages(fs)
    /\ Len(written) = 2

-----------------------------------------------------------------------------
(* C29: from the title of a post to its page *)

(* the titles ez-ssg post is run with *)
PostTitles == {TitleA, TitleAB, TitleDot}

(* the file createPost writes for the title T, and the name of that file *)
PostFileName(T) == ReplaceAll(T, " ", "_") \o MdExt
PostSource(T) == <<MARKDOWN_DIR, NamePosts, PostFileName(T)>>

(* the page the build writes for the file of the title T *)
PostPage(T) == <<SITE_DIR, NameBlog, postRootName(PostFileName(T)) \o HtmlExt>>

(* the last process was a successful ez-ssg post T *)
PostCreated(T) ==
    /\ fnOut # <<>> /\ Len(fnIn) >= 2
    /\ fnIn[1] = <<"p", "o", "s", "t">> /\ fnIn[2] = T /\ fnOut.err = <<>>

BuildSucceeded == bpc = "done" /\ berr = <<>>

(* C29 as stated: post creation to output path.  For every non-empty title  *)
(* T, after createPost(T, tags) followed by a successful build, the page of *)
(* the post is written at blog/<T with every space replaced by an           *)
(* underscore>.html, and two posts created with different titles never     *)
(* share an output file.                                                    *)
C29_Original ==
    BuildSucceeded =>
       \A T \in PostTitles :
          IsFile(fs, PostSource(T)) =>
             /\ <<SITE_DIR, NameBlog, ReplaceAll(T, " ", "_") \o HtmlExt>> \in Pages(fs)
             /\ fs[<<SITE_DIR, NameBlog, ReplaceAll(T, " ", "_") \o HtmlExt>>].page.post.Title = T
             /\ \A U \in PostTitles \ {T} : IsFile(fs, PostSource(U)) => PostPage(U) # PostPage(T)

(* what the code does: createPost writes posts/<T with underscores>.md, and *)
(* the build writes its page at blog/<that name up to its first dot>.html;  *)
(* the page holds one of the posts whose file names agree up to there       *)
C29_PostPage ==
    /\ \A T \in PostTitles :
          PostCreated(T) =>
             /\ IsFile(fs, PostSource(T))
             /\ parsePost(PathBytes(PostSource(T)), ReadFile(fs, PostSource(T))).post.Title = T
    /\ BuildSucceeded =>
          /\ \A T \in PostTitles :
                IsFile(fs, PostSource(T)) =>
                   /\ PostPage(T) \in Pages(fs)
                   /\ \E U \in PostTitles :
                         /\ IsFile(fs, PostSource(U)) /\ PostPage(U) = PostPage(T)
                         /\ fs[PostPage(T)].page.post.Title = U
          /\ \A p \in Pages(fs) :
                (Len(p) = 3 /\ p[2] = NameBlog) =>
                   \E T \in PostTitles : IsFile(fs, PostSource(T)) /\ p = PostPage(T)

C29_Witness ==
    /\ BuildSucceeded
    /\ IsFile(fs, PostSource(TitleA)) /\ IsFile(fs, PostSource(TitleDot))
    /\ PostPage(TitleDot) = <<SITE_DIR, NameBlog, <<"a", ".", "h", "t", "m", "l">>>>
    /\ PostPage(TitleDot) \in Pages(fs)
    /\ <<SITE_DIR, NameBlog, <<"a", ".", "b", ".", "h", "t", "m", "l">>>> \notin DOMAIN fs
    /\ fs[PostPage(TitleDot)].page.post.Title = TitleA

-----------------------------------------------------------------------------
(* The interactive mode.  gocui is a library: MainLoop runs the layout once *)
(* and then, for every key, the handlers bound to the key for the current   *)
(* view and the layout again.  A view holds the lines written to it; the    *)
(* side view holds one line for every command and, after the last newline,  *)
(* an empty line.                                                           *)

viewArr == <<"side", "input1", "input2">>

CmdInit == <<"i", "n", "i", "t">>
CmdGenerate == <<"g", "e", "n", "e", "r", "a", "t", "e">>
CmdPost == <<"p", "o", "s", "t">>
CmdTag == <<"t", "a", "g">>
CmdServe == <<"s", "e", "r", "v", "e">>

ErrQuit == <<"quit">>
ErrUnknownView == <<"unknown view">>
InvalidPoint == <<"invalid point">>
InvalidDimensions == <<"invalid dimensions">>

(* what a handler or the layout returns: the views, an error (<<>> is nil)  *)
(* and the value of a panic (<<>> when it returned)                         *)
Returned(g, e) == [gui |-> g, err |-> e, panic |-> <<>>]
Panicked(g, e) == [gui |-> g, err |-> <<>>, panic |-> e]

(* v.Line(y) of the side view: LineOK when err == nil *)
LineOK(g, y) == y >= 0 /\ y < Len(g.side)
Line(g, y) == IF LineOK(g, y) THEN g.side[y + 1] ELSE <<>>

(* strings.TrimSpace *)
TrimSpace(s) ==
    IF \A i \in 1..Len(s) : IsSpace(s[i]) THEN <<>>
    ELSE SubSeq(s,
                CHOOSE i \in 1..Len(s) : ~IsSpace(s[i]) /\ \A k \in 1..(i - 1) : IsSpace(s[k]),
                CHOOSE j \in 1..Len(s) : ~IsSpace(s[j]) /\ \A k \in (j + 1)..Len(s) : IsSpace(s[k]))

RECURSIVE Split(_, _)
(* strings.Split(s, sep) for a separator of one byte *)
Split(s, sep) ==
    IF IndexByte(s, sep, 1) = 0 THEN <<s>>
    ELSE <<SubSeq(s, 1, IndexByte(s, sep, 1) - 1)>>
            \o Split(SubSeq(s, IndexByte(s, sep, 1) + 1, Len(s)), sep)

(* v.Buffer() of an input view holding the one line of text t *)
Buffer(t) == IF t = <<>> THEN <<>> ELSE t \o <<LF>>

(* displayCmdInstruction(mainView, cmd): the error it returns *)
displayCmdInstruction(cmd) ==
    IF cmd \in commands THEN <<>> ELSE <<"invalid command string">>

(* SetCurrentCmdInstruction(g, v) for the side view v *)
SetCurrentCmdInstruction(g) ==
    LET cmd == Line(g, g.cy)
        shown == [g EXCEPT !.main = IF cmd \in commands THEN cmd ELSE <<>>]
    IN  IF "main" \notin g.views THEN Returned(g, ErrUnknownView)
        ELSE IF displayCmdInstruction(cmd) # <<>>
        THEN Returned(shown, displayCmdInstruction(cmd))
        ELSE IF "input1" \notin g.views \/ "input2" \notin g.views THEN Returned(shown, <<>>)
        ELSE IF cmd \in {CmdInit, CmdGenerate}
        THEN Returned([shown EXCEPT !.frame1 = FALSE, !.frame2 = FALSE,
                                    !.input1 = <<>>, !.input2 = <<>>], <<>>)
        ELSE IF cmd = CmdPost
        THEN Returned([shown EXCEPT !.frame1 = TRUE, !.frame2 = TRUE], <<>>)
        ELSE IF cmd = CmdTag
        THEN Returned([shown EXCEPT !.frame1 = TRUE, !.frame2 = FALSE], <<>>)
        ELSE Panicked(shown, <<"this command does not exist">>)

(* g.SetView(name, x0, y0, x1, y1) in the layout: the view is created when  *)
(* it does not exist; y0 >= y1 is the error "invalid dimensions" (the       *)
(* columns of the layout always have x0 < x1)                               *)
SetView(g, name) == [g EXCEPT !.views = @ \cup {name}]

(* the side view on its creation: the commands in the order of the range    *)
(* over the map, the side view current                                      *)
SideCreated(g, order) ==
    IF "side" \in g.views THEN g
    ELSE [SetView(g, "side") EXCEPT !.side = order \o <<<<>>>>, !.current = "side"]

(* the rest of layout after SetCurrentCmdInstruction returned s *)
layoutInputs(s, maxY) ==
    IF s.panic # <<>> \/ s.err # <<>> THEN s
    ELSE IF 10 >= (maxY \div 5) + 5 THEN Returned(s.gui, InvalidDimensions)
    ELSE IF 15 >= (maxY \div 3) + 5
    THEN Returned(SetView(s.gui, "msg"), InvalidDimensions)
    ELSE IF 20 >= (maxY \div 3) + 10
    THEN Returned(SetView(SetView(s.gui, "msg"), "input1"), InvalidDimensions)
    ELSE Returned(SetView(SetView(SetView(s.gui, "msg"), "input1"), "input2"), <<>>)

(* layout(g) on a terminal of maxY rows; order is the order of the range    *)
(* over commands, used when the side view is created                        *)
layout(g, order, maxY) ==
    IF 0 >= maxY \div 8 THEN Returned(g, InvalidDimensions)
    ELSE IF -1 >= maxY THEN Returned(SetView(g, "main"), InvalidDimensions)
    ELSE layoutInputs(SetCurrentCmdInstruction(SideCreated(SetView(g, "main"), order)), maxY)

(* cursorDown(g, v) for the side view v; the terminal has more rows than    *)
(* the side view has lines, so SetCursor does not fail                      *)
cursorDown(g) ==
    LET cleared == [g EXCEPT !.msg = <<>>]
        nextCmd == Line(g, g.cy + 1)
    IN  IF "msg" \notin g.views
        THEN Returned(g, <<"error checking views: ">> \o ErrUnknownView)
        ELSE IF ~LineOK(g, g.cy + 1)
        THEN Returned(cleared, <<"error checking for existence of next line: ">>
                                  \o InvalidPoint)
        ELSE IF nextCmd = <<>> THEN Returned(cleared, <<>>)
        ELSE IF displayCmdInstruction(nextCmd) # <<>>
        THEN Returned([cleared EXCEPT !.cy = @ + 1, !.current = "main", !.main = <<>>],
                      displayCmdInstruction(nextCmd))
        ELSE Returned([cleared EXCEPT !.cy = @ + 1, !.main = nextCmd, !.current = "side",
                                      !.input1 = <<>>, !.input2 = <<>>], <<>>)

(* cursorUp: the inputs are cleared when SetCurrentCmdInstruction returned  *)
(* s without an error                                                       *)
cursorUpClear(s) ==
    IF s.panic # <<>> \/ s.err # <<>> THEN s
    ELSE Returned([s.gui EXCEPT !.input1 = <<>>, !.input2 = <<>>], <<>>)

(* cursorUp(g, v) for the side view v *)
cursorUp(g) ==
    IF "msg" \notin g.views
    THEN Returned(g, <<"error checking views: ">> \o ErrUnknownView)
    ELSE cursorUpClear(SetCurrentCmdInstruction(
             [g EXCEPT !.msg = <<>>, !.cy = IF @ > 0 THEN @ - 1 ELSE @]))

(* the text exec returns for the result r of the function of cmd *)
ExecMessage(cmd, r) ==
    [fs |-> r.fs,
     msg |-> IF r.err # <<>>
             THEN <<"error executing ", Str(cmd), " command: ">> \o r.err
             ELSE <<"successfully executed">>]

(* the tags exec hands to createPost *)
ExecTags(buffer) == IF buffer = <<>> THEN <<>> ELSE Split(buffer, " ")

(* exec(g, cmd) on the working directory f for the commands that run in one *)
(* step: the working directory it leaves and the text it returns            *)
exec(g, cmd, f, date) ==
    IF cmd = CmdInit THEN ExecMessage(cmd, initialize(f))
    ELSE IF cmd = CmdPost
    THEN ExecMessage(cmd, createPost(f, TrimSpace(Buffer(g.input2)),
                                     ExecTags(TrimSpace(Buffer(g.input1))), date))
    ELSE IF cmd = CmdTag
    THEN IF TrimSpace(Buffer(g.input1)) = <<>>
         THEN [fs |-> f, msg |-> <<"no tag values provided">>]
         ELSE ExecMessage(cmd, createTag(f, Split(TrimSpace(Buffer(g.input1)), " ")))
    ELSE ExecMessage(cmd, [fs |-> f, err |-> <<"command does not exist: ", Str(cmd)>>])

(* execCurCmd(g, v) after exec returned msg *)
execCurCmd(g, msg) ==
    IF "msg" \notin g.views THEN Returned(g, ErrUnknownView)
    ELSE Returned([g EXCEPT !.msg = msg, !.current = "side"], <<>>)

(* quit *)
quit == ErrQuit

(* mutant: the title input is not skipped for the command tag *)
nextViewNoSkip(g, a) ==
    LET cmd == Line(g, g.cy)
        nextIndex == (a + 1) % Len(viewArr)
        curViewName == viewArr[nextIndex + 1]
    IN  IF "side" \notin g.views
        THEN [gui |-> g, active |-> a, err |-> <<"error checking side view: ">> \o ErrUnknownView]
        ELSE IF ~LineOK(g, g.cy)
        THEN [gui |-> g, active |-> a, err |-> <<"error checking current command: ">> \o InvalidPoint]
        ELSE IF cmd = CmdGenerate \/ cmd = CmdInit THEN [gui |-> g, active |-> a, err |-> <<>>]
        ELSE IF curViewName \notin g.views
        THEN [gui |-> g, active |-> a, err |-> ErrUnknownView]
        ELSE [gui |-> [g EXCEPT !.current = curViewName], active |-> nextIndex, err |-> <<>>]

RECURSIVE nextView(_, _)
(* nextView(g, v) with the package variable active = a: the views, the new  *)
(* value of active and the error                                            *)
nextView(g, a) ==
    LET cmd == Line(g, g.cy)
        nextIndex == (a + 1) % Len(viewArr)
        curViewName == viewArr[nextIndex + 1]
    IN  IF "side" \notin g.views
        THEN [gui |-> g, active |-> a, err |-> <<"error checking side view: ">> \o ErrUnknownView]
        ELSE IF ~LineOK(g, g.cy)
        THEN [gui |-> g, active |-> a, err |-> <<"error checking current command: ">> \o InvalidPoint]
        ELSE IF cmd = CmdGenerate \/ cmd = CmdInit THEN [gui |-> g, active |-> a, err |-> <<>>]
        ELSE IF cmd = CmdTag /\ curViewName = "input2" THEN nextView(g, nextIndex)
        ELSE IF curViewName \notin g.views
        THEN [gui |-> g, active |-> a, err |-> ErrUnknownView]
        ELSE [gui |-> [g EXCEPT !.current = curViewName], active |-> nextIndex, err |-> <<>>]

-----------------------------------------------------------------------------
(* interactive and the end of main, for a process started without argument *)

(* the orders of the range over commands the model draws from: serve on    *)
(* the first line, among the other commands, and on the last line          *)
SideOrders ==
    {<<CmdServe, CmdInit, CmdGenerate, CmdPost, CmdTag>>,
     <<CmdPost, CmdTag, CmdGenerate, CmdServe, CmdInit>>,
     <<CmdTag, CmdPost, CmdInit, CmdGenerate, CmdServe>>}

(* the heights of the terminal and the keys typed into the input views *)
TerminalRows == {24, 40}
InputKeys == {"a"}

(* the working directories the interactive mode is started in: those of the *)
(* command line mode, one where ez-ssg init has run, and one where a post   *)
(* and a tag were created after it                                          *)
UIStartDirs ==
    StartDirs \cup
       {initialize(EmptyFS).fs,
        createTag(createPost(initialize(EmptyFS).fs, TitleA, <<TagGo>>,
                             CHOOSE d \in Dates : TRUE).fs,
                  <<TagGo>>).fs}

IndexOutOfRange == <<"panic: runtime error: index out of range [1] with length 1">>

(* the process ends by a panic with the value e, the working directory      *)
(* being f: exit status 2                                                   *)
UIPanicked(f, e) == uipc' = "exited" /\ MainExited(<<>>, Exited(f, e, 2, e))

(* g.flush() in MainLoop has run layout, which returned l: an error leaves  *)
(* MainLoop and interactive calls logger.Panicln                            *)
Flushed(f, l, a) ==
    /\ gui' = l.gui /\ active' = a
    /\ IF l.panic # <<>> THEN UIPanicked(f, l.panic)
       ELSE IF l.err # <<>> THEN UIPanicked(f, l.err)
       ELSE uipc' = "loop" /\ fs' = f /\ UNCHANGED <<fnIn, fnOut>>

(* MainLoop after the handlers of a key returned r with active = a: ErrQuit *)
(* makes interactive return, another error makes it panic, and without an   *)
(* error the layout runs                                                    *)
Handled(f, r, a) ==
    IF r.panic # <<>> THEN gui' = r.gui /\ active' = a /\ UIPanicked(f, r.panic)
    ELSE IF r.err = ErrQuit
    THEN /\ gui' = r.gui /\ active' = a /\ uipc' = "returned"
         /\ fs' = f /\ UNCHANGED <<fnIn, fnOut>>
    ELSE IF r.err # <<>> THEN gui' = r.gui /\ active' = a /\ UIPanicked(f, r.err)
    ELSE Flushed(f, layout(r.gui, <<>>, rows), a)

UIFrame == UNCHANGED <<fnPc, rows, codecVars, resetVars, buildVars, embedded>>

(* interactive up to the first flush of MainLoop *)
UIStart ==
    /\ uipc = "start"
    /\ \E order \in SideOrders : Flushed(fs, layout(gui, order, rows), active)
    /\ UNCHANGED execs /\ UIFrame

(* the handler of the side view for the arrow down key *)
KeyArrowDown ==
    /\ uipc = "loop" /\ gui.current = "side"
    /\ Handled(fs, cursorDown(gui), active)
    /\ UNCHANGED execs /\ UIFrame

(* the handler of the side view for the arrow up key *)
KeyArrowUp ==
    /\ uipc = "loop" /\ gui.current = "side"
    /\ Handled(fs, cursorUp(gui), active)
    /\ UNCHANGED execs /\ UIFrame

(* execCurCmd for what exec returned as x *)
Executed(x) == Handled(x.fs, execCurCmd(gui, x.msg), active)

(* the handler of the side view for the enter key: exec runs the command of *)
(* the current line; generateStaticSite runs in the steps of the build      *)
KeyEnter ==
    /\ uipc = "loop" /\ gui.current = "side"
    /\ execs < MaxExecs
    /\ execs' = execs + 1
    /\ IF Line(gui, gui.cy) = CmdGenerate
       THEN uipc' = "generate" /\ UNCHANGED <<gui, active, fs, fnIn, fnOut>>
       ELSE \E date \in Dates : Executed(exec(gui, Line(gui, gui.cy), fs, date))
    /\ UIFrame

(* generateStaticSite has returned to exec, or its panic ends the process *)
UIGenerateReturn ==
    /\ uipc = "generate" /\ bpc \in {"done", "panic"}
    /\ IF bpc = "panic"
       THEN UIPanicked(fs, berr) /\ UNCHANGED <<gui, active>>
       ELSE Executed(ExecMessage(CmdGenerate, [fs |-> fs, err |-> berr]))
    /\ bpc' = "idle" /\ berr' = <<>>
    /\ cfg' = ZeroConfig /\ posts' = <<>> /\ tags' = <<>> /\ queue' = <<>>
    /\ includesRender' = NoIncludes
    /\ UNCHANGED <<fnPc, rows, execs, builds, trace, written, codecVars, resetVars, embedded>>

(* the handler of every view for the tab key *)
KeyTab ==
    /\ uipc = "loop"
    /\ Handled(fs, Returned(nextView(gui, active).gui, nextView(gui, active).err),
               nextView(gui, active).active)
    /\ UNCHANGED execs /\ UIFrame

(* the handler of every view for Ctrl-C *)
KeyCtrlC ==
    /\ uipc = "loop"
    /\ Handled(fs, Returned(gui, quit), active)
    /\ UNCHANGED execs /\ UIFrame

(* a key without a handler: the editor of an input view appends it to the   *)
(* text, the side view ignores it; the layout runs in both cases            *)
KeyTyped ==
    /\ uipc = "loop"
    /\ \E ch \in InputKeys :
          IF gui.current = "input1" /\ Len(gui.input1) < MaxInput
          THEN Handled(fs, Returned([gui EXCEPT !.input1 = Append(@, ch)], <<>>), active)
          ELSE IF gui.current = "input2" /\ Len(gui.input2) < MaxInput
          THEN Handled(fs, Returned([gui EXCEPT !.input2 = Append(@, ch)], <<>>), active)
          ELSE Handled(fs, Returned(gui, <<>>), active)
    /\ UNCHANGED execs /\ UIFrame

(* main after interactive has returned: cmd := os.Args[1] with one element  *)
(* in os.Args                                                               *)
MainCommandLineMode ==
    /\ uipc = "returned"
    /\ UIPanicked(fs, IndexOutOfRange)
    /\ UNCHANGED <<gui, active, execs>> /\ UIFrame

InitUI ==
    /\ CodecStart /\ CLIStart /\ fs \in UIStartDirs /\ ResetRest /\ BuildStart
    /\ ShippedTemplates
    /\ gui = NoGui /\ active = 0 /\ uipc = "start" /\ rows \in TerminalRows /\ execs = 0

UINext ==
    \/ UIStart
    \/ KeyArrowDown
    \/ KeyArrowUp
    \/ KeyEnter
    \/ UIGenerateReturn
    \/ KeyTab
    \/ KeyCtrlC
    \/ KeyTyped
    \/ MainCommandLineMode
    \/ BuildReset
    \/ BuildCopyAssets
    \/ BuildLoadConfig
    \/ BuildDiscoverPost
    \/ BuildPostsDone
    \/ BuildDiscoverTag
    \/ BuildTagsDone
    \/ BuildRenderSpecial
    \/ BuildSpecialDone
    \/ BuildRenderPost
    \/ BuildRenderDone
    \/ BuildRenderTag
    \/ BuildReturn

SpecUI == InitUI /\ [][UINext]_vars

-----------------------------------------------------------------------------
(* the command of the line the cursor of the side view is on *)
Selected == Line(gui, gui.cy)

(* a step in which the execution of the selected command ends *)
ExecEnds ==
    \/ uipc = "loop" /\ execs' = execs + 1 /\ uipc' # "generate"
    \/ uipc = "generate" /\ uipc' # "generate"

Success == <<"successfully executed">>

(* the texts exec returns *)
ResultText(m) ==
    \/ m = Success
    \/ m = <<"no tag values provided">>
    \/ Len(m) > 3 /\ m[1] = "error executing " /\ m[2] = Str(Selected) /\ m[3] = " command: "

(* C24 as stated: interactive UI error surfacing.  In the terminal UI,      *)
(* executing the selected command always ends with the result text in the   *)
(* message panel ("successfully executed" on success, the error message on  *)
(* failure) and with the focus back on the side view; a failing command     *)
(* never terminates the UI.                                                 *)
C24_Original ==
    [][ExecEnds => (uipc' = "loop" /\ gui'.current = "side" /\ ResultText(gui'.msg))]_vars

(* what the code does: the text is written to the message view and the side *)
(* view is current again; for init, generate, post and tag the UI goes on,  *)
(* with "successfully executed" exactly when the command did its work; for  *)
(* serve, the fifth line of the side view, exec fails and the layout that   *)
(* follows panics, which ends the process                                   *)
C24_ExecSurfacing ==
    [][ExecEnds =>
         /\ gui'.current = "side" /\ ResultText(gui'.msg)
         /\ IF Selected = CmdServe
            THEN /\ gui'.msg = <<"error executing ", "serve", " command: ",
                                 "command does not exist: ", "serve">>
                 /\ uipc' = "exited" /\ fnOut'.status = 2
                 /\ fnOut'.reported = <<"this command does not exist">>
                 /\ fs' = fs
            ELSE uipc' = "loop" /\ fnOut' = fnOut
         /\ Selected = CmdGenerate => (gui'.msg = Success <=> berr = <<>>)
         /\ Selected = CmdInit =>
               IF gui'.msg = Success THEN IsFile(fs', <<CONFIG_FILE>>)
               ELSE ~IsDir(fs', <<MARKDOWN_DIR, NamePosts>>)
         /\ Selected = CmdPost =>
               IF gui'.msg = Success
               THEN /\ TrimSpace(gui.input2) # <<>>
                    /\ IsFile(fs', <<MARKDOWN_DIR, NamePosts,
                                     ReplaceAll(TrimSpace(gui.input2), " ", "_") \o MdExt>>)
               ELSE fs' = fs
         /\ Selected = CmdTag =>
               IF gui'.msg = Success
               THEN /\ TrimSpace(gui.input1) # <<>>
                    /\ IsFile(fs', <<MARKDOWN_DIR, NameTags,
                                     StringsToLower(TrimSpace(gui.input1)) \o JsonExt>>)
               ELSE fs' = fs
      ]_vars

C24_Witness ==
    /\ uipc = "exited" /\ Selected = CmdServe /\ execs = 1
    /\ gui.msg = <<"error executing ", "serve", " command: ", "command does not exist: ", "serve">>
    /\ gui.current = "side"
    /\ fnOut.status = 2 /\ fnOut.reported = <<"this command does not exist">>

-----------------------------------------------------------------------------
(* the views of the interactive mode exist *)
UIViews == "side" \in gui.views

(* C27: Tab focus cycle in the interactive UI.  With "post" selected, Tab   *)
(* cycles the focus side -> input1 -> input2 -> side; with "tag" selected   *)
(* Tab never focuses input2 (the focus alternates side <-> input1); with    *)
(* "init" or "generate" selected Tab changes nothing; in every reachable    *)
(* state the global index active is within 0..2 and names the focused view  *)
(* of viewArr.                                                              *)
C27_TabFocusCycle ==
    /\ [](UIViews => (active \in 0..2 /\ viewArr[active + 1] = gui.current))
    /\ [](UIViews /\ Selected = CmdTag => gui.current # "input2")
    /\ [](UIViews /\ Selected \in {CmdInit, CmdGenerate} => gui.current = "side")
    /\ [][KeyTab =>
            IF Selected = CmdPost
            THEN gui'.current = (IF gui.current = "side" THEN "input1"
                                 ELSE IF gui.current = "input1" THEN "input2" ELSE "side")
            ELSE IF Selected = CmdTag
            THEN gui'.current = (IF gui.current = "side" THEN "input1" ELSE "side")
            ELSE IF Selected \in {CmdInit, CmdGenerate}
            THEN /\ gui'.current = gui.current /\ active' = active /\ uipc' = "loop"
                 /\ gui'.input1 = gui.input1 /\ gui'.input2 = gui.input2 /\ gui'.cy = gui.cy
            ELSE TRUE
      ]_vars

C27_Witness ==
    /\ uipc = "loop" /\ Selected = CmdPost
    /\ gui.current = "input2" /\ active = 2
    /\ gui.input1 = <<"a">> /\ gui.input2 = <<"a">>

-----------------------------------------------------------------------------
(* C30 as stated: no-argument start.  When the program is started with no   *)
(* command-line argument, main runs the interactive UI and, once the UI has *)
(* quit, terminates normally without reading or dispatching any             *)
(* command-line command.                                                    *)
C30_Original ==
    [][uipc = "returned" =>
          (uipc' = "exited" /\ fnOut'.status = 0 /\ fnOut'.reported = <<>>)]_vars

(* what the code does: after interactive has returned main goes on to read  *)
(* os.Args[1], which does not exist, and the process ends with the panic of *)
(* the index expression; no command function is called                      *)
C30_IndexOutOfRange ==
    /\ [](uipc # "off" => fnIn = <<>>)
    /\ [][uipc = "returned" =>
             /\ uipc' = "exited"
             /\ fnOut'.status = 2 /\ fnOut'.reported = IndexOutOfRange
             /\ fs' = fs /\ bpc' = bpc
       ]_vars

C30_Witness ==
    /\ uipc = "exited" /\ fnIn = <<>>
    /\ fnOut.status = 2 /\ fnOut.reported = IndexOutOfRange
    /\ UIViews /\ rows = 40

====
